---- MODULE Spec2Model ----
(***************************************************************************)
(* A model of ngcc's orchestration core: mainNgcc() in                     *)
(* packages/compiler-cli/ngcc/src/main.ts and the single-process executor  *)
(* in execution/single_process_executor.ts, over a small tree of packages. *)
(*                                                                         *)
(* The state is the set of processed markers stored in every package.json, *)
(* the bundle files written so far, and the position of the current        *)
(* mainNgcc() invocation: its options, the task queue returned by the      *)
(* analysis, and the executor's place in its loop.                         *)
(***************************************************************************)
EXTENDS Integers, Sequences, FiniteSets, TLC

(***************************************************************************)
(* Bounds of the model.                                                    *)
(***************************************************************************)
\* How many times mainNgcc() is invoked in one behaviour.
MaxRuns == 2
\* The largest number of CPU cores os.cpus() may report.
MaxCpus == 3

(***************************************************************************)
(* Program constants.                                                      *)
(***************************************************************************)
\* `Math.min(8, os.cpus().length - 1)` in getExecutor().
MaxWorkers == 8

\* The supported format properties, in the order of the error message of
\* ensureSupportedProperties().
SUPPORTED_FORMAT_PROPERTIES ==
    <<"fesm2015", "fesm5", "es2015", "esm2015", "esm5", "main", "module">>

Range(s) == {s[i] : i \in 1..Len(s)}

SupportedProperties == Range(SUPPORTED_FORMAT_PROPERTIES)

\* The keys of `__processed_by_ivy_ngcc__`: the format properties and 'typings'.
MarkerKeys == SupportedProperties \cup {"typings"}

\* The value of `packageJson[prop]` for a property that is not defined.
undefined == "undefined"

\* The `targetEntryPointPath` option when it is left out.
NoTarget == "undefined"

(***************************************************************************)
(* The package tree (the file system the run is given).                    *)
(*                                                                         *)
(*   core     Angular, no dependencies; fesm2015/es2015 and fesm5/module   *)
(*            are aliases of one bundle each.                              *)
(*   common   Angular, depends on core; found before core by the walker;   *)
(*            fesm2015/es2015 are aliases of one bundle, main is another.  *)
(*   local    Angular, depends on core; defines es2015 only (its esm5 is   *)
(*            not a string).                                               *)
(*   testpkg  not compiled by Angular (no metadata.json), imports common.  *)
(*   invalid  Angular, imports core and the missing '@angular/missing'.    *)
(*   ignored  Angular, depends on core; the configuration file says        *)
(*            `ignore: true` for it.  local is a sub-entry-point of it     *)
(*            (its directory lies inside) and imports it.                  *)
(***************************************************************************)
Packages == {"common", "core", "local", "testpkg", "invalid", "ignored"}

\* The base path the walker starts from.
BasePath == "node_modules"

\* The directories below each directory, in the order they are read.
SubDirectories ==
    [d \in Packages \cup {BasePath} |->
        CASE d = BasePath  -> <<"common", "core", "invalid", "ignored", "testpkg">>
          [] d = "ignored" -> <<"local">>
          [] OTHER         -> <<>>]

\* The walk: a directory, then what lies inside it.
RECURSIVE walkDirectory(_)
RECURSIVE walkDirectories(_)
walkDirectories(dirs) ==
    IF dirs = <<>> THEN <<>>
    ELSE walkDirectory(Head(dirs)) \o walkDirectories(Tail(dirs))

walkDirectory(dir) ==
    (IF dir = BasePath THEN <<>> ELSE <<dir>>) \o walkDirectories(SubDirectories[dir])

\* The order in which the directory walker meets the packages.
WalkOrder == walkDirectory(BasePath)

\* A value in package.json that is not a string (an object, say).
NotAString == "[object Object]"

\* A format path that is a string and yet falsy: the empty string.
EmptyPath == ""

\* The format properties of each package.json.
PackageJsonFormats ==
    [p \in Packages |->
        CASE p = "core"    -> ("fesm2015" :> "fesm2015.js" @@ "es2015" :> "fesm2015.js" @@
                               "fesm5" :> "fesm5.js" @@ "module" :> "fesm5.js" @@
                               "esm5" :> "esm5.js")
          [] p = "common"  -> ("fesm2015" :> "fesm2015.js" @@ "es2015" :> "fesm2015.js" @@
                               "main" :> "umd.js")
          [] p = "local"   -> ("es2015" :> "index.js" @@ "esm2015" :> EmptyPath @@
                               "esm5" :> NotAString)
          [] p = "testpkg" -> ("es2015" :> "index.js")
          [] p = "invalid" -> ("es2015" :> "index.js")
          [] p = "ignored" -> ("es2015" :> "index.js" @@ "main" :> "umd.js")]

\* Whether the package holds code compiled by Angular (it has metadata.json).
CompiledByAngular == {"common", "core", "local", "invalid", "ignored"}

\* The entry points for which the configuration file says `ignore: true`.
IgnoredByConfig == {"ignored"}

\* The packages the imports of each package resolve to.
Dependencies ==
    [p \in Packages |->
        CASE p = "core"    -> {}
          [] p = "common"  -> {"core"}
          [] p = "local"   -> {"core", "ignored"}
          [] p = "testpkg" -> {"common"}
          [] p = "invalid" -> {"core"}
          [] p = "ignored" -> {"core"}]

\* The import specifiers of each package that resolve to nothing.
MissingDependencies ==
    [p \in Packages |-> IF p = "invalid" THEN {"@angular/missing"} ELSE {}]

\* packageJson[prop]
Get(packageJson, prop) ==
    IF prop \in DOMAIN packageJson THEN packageJson[prop] ELSE undefined

\* typeof formatPath === 'string'
isString(formatPath) == formatPath \notin {undefined, NotAString}

\* `!formatPath`, `packageJson[property]` as a condition: undefined and the
\* empty string are falsy.
isFalsy(formatPath) == formatPath \in {undefined, EmptyPath}

(***************************************************************************)
(* build_marker: a property is processed when its marker is present.       *)
(***************************************************************************)
hasBeenProcessed(markers, prop) == prop \in markers

\* Faulty variant: the marker object is written anew, with the new keys only.
markAsProcessed_replace(markers, props) == props

markAsProcessed(markers, props) == markers \cup props

(***************************************************************************)
(* getPropertiesToProcess(): the first loop, over propertiesToConsider.    *)
(***************************************************************************)
RECURSIVE propertiesToProcessLoop(_, _, _, _, _)
propertiesToProcessLoop(packageJson, props, compileAllFormats, formatPaths, acc) ==
    IF props = <<>>
    THEN [propertiesToProcess |-> acc, formatPathsToConsider |-> formatPaths]
    ELSE LET prop == Head(props)
             formatPath == Get(packageJson, prop)
         IN  IF ~isString(formatPath)
             THEN propertiesToProcessLoop(packageJson, Tail(props), compileAllFormats,
                                          formatPaths, acc)
             ELSE IF formatPath \in formatPaths
             THEN propertiesToProcessLoop(packageJson, Tail(props), compileAllFormats,
                                          formatPaths, acc)
             ELSE IF ~compileAllFormats
             THEN [propertiesToProcess |-> Append(acc, prop),
                   formatPathsToConsider |-> formatPaths \cup {formatPath}]
             ELSE propertiesToProcessLoop(packageJson, Tail(props), compileAllFormats,
                                          formatPaths \cup {formatPath}, Append(acc, prop))

\* Faulty variant: every supported property the package.json defines is
\* taken to be equivalent, whatever its format path.
formatPathToProperties_defined(packageJson, formatPathsToConsider, formatPath) ==
    SelectSeq(SUPPORTED_FORMAT_PROPERTIES,
              LAMBDA prop : isString(Get(packageJson, prop)))

\* Faulty variant: the properties of every considered format path are taken
\* to be equivalent to one another.
formatPathToProperties_considered(packageJson, formatPathsToConsider, formatPath) ==
    SelectSeq(SUPPORTED_FORMAT_PROPERTIES,
              LAMBDA prop : /\ isString(Get(packageJson, prop))
                            /\ Get(packageJson, prop) \in formatPathsToConsider)

\* formatPathToProperties[formatPath]: the supported properties that map to
\* a considered format path (the empty list stands for `undefined`).
formatPathToProperties(packageJson, formatPathsToConsider, formatPath) ==
    SelectSeq(SUPPORTED_FORMAT_PROPERTIES,
              LAMBDA prop : /\ isString(Get(packageJson, prop))
                            /\ Get(packageJson, prop) \in formatPathsToConsider
                            /\ Get(packageJson, prop) = formatPath)

\* Faulty variant: a property is equivalent to itself only, so a task marks
\* just the property it compiled.
getPropertiesToProcess_self(packageJson, propertiesToConsider, compileAllFormats) ==
    LET loop == propertiesToProcessLoop(packageJson, propertiesToConsider,
                                        compileAllFormats, {}, <<>>)
    IN  [propertiesToProcess |-> loop.propertiesToProcess,
         equivalentPropertiesMap |->
             [prop \in Range(propertiesToConsider) |->
                 IF Get(packageJson, prop) \in loop.formatPathsToConsider
                 THEN <<prop>> ELSE <<>>]]

\* Faulty variant: the first loop never stops at the first match.
getPropertiesToProcess_all(packageJson, propertiesToConsider, compileAllFormats) ==
    LET loop == propertiesToProcessLoop(packageJson, propertiesToConsider,
                                        TRUE, {}, <<>>)
    IN  [propertiesToProcess |-> loop.propertiesToProcess,
         equivalentPropertiesMap |->
             [prop \in Range(propertiesToConsider) |->
                 formatPathToProperties(packageJson, loop.formatPathsToConsider,
                                        Get(packageJson, prop))]]

\* Faulty variant: a property is planned whenever it is defined as a string,
\* whether an earlier property has the same format path or not.
getPropertiesToProcess_dup(packageJson, propertiesToConsider, compileAllFormats) ==
    LET loop == propertiesToProcessLoop(packageJson, propertiesToConsider,
                                        compileAllFormats, {}, <<>>)
        defined == SelectSeq(propertiesToConsider,
                             LAMBDA prop : isString(Get(packageJson, prop)))
    IN  [propertiesToProcess |->
             IF compileAllFormats THEN defined ELSE loop.propertiesToProcess,
         equivalentPropertiesMap |->
             [prop \in Range(propertiesToConsider) |->
                 formatPathToProperties(packageJson, loop.formatPathsToConsider,
                                        Get(packageJson, prop))]]

\* Faulty variant: the equivalent properties are looked for among the
\* properties to consider, not among all the supported ones.
getPropertiesToProcess_considered(packageJson, propertiesToConsider, compileAllFormats) ==
    LET loop == propertiesToProcessLoop(packageJson, propertiesToConsider,
                                        compileAllFormats, {}, <<>>)
    IN  [propertiesToProcess |-> loop.propertiesToProcess,
         equivalentPropertiesMap |->
             [prop \in Range(propertiesToConsider) |->
                 SelectSeq(formatPathToProperties(packageJson, loop.formatPathsToConsider,
                                                  Get(packageJson, prop)),
                           LAMBDA q : q \in Range(propertiesToConsider))]]

getPropertiesToProcess(packageJson, propertiesToConsider, compileAllFormats) ==
    LET loop == propertiesToProcessLoop(packageJson, propertiesToConsider,
                                        compileAllFormats, {}, <<>>)
    IN  [propertiesToProcess |-> loop.propertiesToProcess,
         equivalentPropertiesMap |->
             [prop \in Range(propertiesToConsider) |->
                 formatPathToProperties(packageJson, loop.formatPathsToConsider,
                                        Get(packageJson, prop))]]

(***************************************************************************)
(* The dependency resolver and the two entry-point finders.                *)
(***************************************************************************)
\* Faulty variant: the configuration is not looked at.
getEntryPointInfo_noconfig(path) ==
    path \in CompiledByAngular

\* getEntryPointInfo(): whether the path holds an entry point.  It does not
\* when the configuration ignores it or when it was not compiled by Angular.
getEntryPointInfo(path) ==
    /\ path \notin IgnoredByConfig
    /\ path \in CompiledByAngular

\* The edges of the graph: an import that resolves to something that is no
\* entry point is an ignored dependency and adds no edge.
resolvedDependencies(entryPoint) ==
    {d \in Dependencies[entryPoint] : getEntryPointInfo(d)}

\* DepGraph.dependenciesOf(): the direct and transitive dependencies.
RECURSIVE dependenciesOfFrom(_)
dependenciesOfFrom(found) ==
    LET next == found \cup UNION {resolvedDependencies(d) : d \in found}
    IN  IF next = found THEN found ELSE dependenciesOfFrom(next)

\* The graph is built once by the resolver; dependenciesOf() looks it up.
DepGraph == [e \in Packages |-> dependenciesOfFrom(resolvedDependencies(e))]

dependenciesOf(entryPoint) == DepGraph[entryPoint]

\* The topological order: the first entry point (in input order) none of
\* whose dependencies is still waiting comes next.
RECURSIVE overallOrder(_)
overallOrder(remaining) ==
    IF remaining = <<>> THEN <<>>
    ELSE LET ready == SelectSeq(remaining,
                          LAMBDA e : resolvedDependencies(e) \cap Range(remaining) = {})
             first == IF ready = <<>> THEN Head(remaining) ELSE Head(ready)
         IN  <<first>> \o overallOrder(SelectSeq(remaining, LAMBDA e : e # first))

\* DependencyResolver.sortEntryPointsByDependency()
sortEntryPointsByDependency(candidates) ==
    LET invalid == SelectSeq(candidates, LAMBDA e : MissingDependencies[e] # {})
        valid   == SelectSeq(candidates, LAMBDA e : MissingDependencies[e] = {})
    IN  [entryPoints        |-> overallOrder(valid),
         invalidEntryPoints |->
             [i \in 1..Len(invalid) |->
                 [entryPoint          |-> invalid[i],
                  missingDependencies |-> MissingDependencies[invalid[i]]]],
         graph              |-> Range(valid)]

\* DirectoryWalkerEntryPointFinder.findEntryPoints()
DirectoryWalkerEntryPointFinder ==
    sortEntryPointsByDependency(SelectSeq(WalkOrder, getEntryPointInfo))

\* TargetedEntryPointFinder.findEntryPoints()
TargetedEntryPointFinder(target) ==
    IF ~getEntryPointInfo(target)
    THEN [entryPoints |-> <<>>, invalidEntryPoints |-> <<>>, graph |-> {}]
    ELSE sortEntryPointsByDependency(
             SelectSeq(WalkOrder, LAMBDA e : e \in {target} \cup dependenciesOf(target)))

(***************************************************************************)
(* main.ts: the helpers of analyzeEntryPoints().                           *)
(***************************************************************************)
NoError == [kind |-> "none", tried |-> <<>>, paths |-> <<>>, missing |-> {}]

\* Faulty variant: nothing is dropped from the list.
ensureSupportedProperties_keep(properties) ==
    properties

\* ensureSupportedProperties(): the supported ones among `properties`.
ensureSupportedProperties(properties) ==
    SelectSeq(properties, LAMBDA prop : prop \in SupportedProperties)

\* ensureSupportedProperties() throws when none is left.
NoSupportedPropertyError(properties) ==
    [kind |-> "NoSupportedProperty", tried |-> properties, paths |-> <<>>,
     missing |-> {}]

\* Faulty variant: the loop answers true at the first processed property,
\* whether all formats are to be compiled or not.
RECURSIVE hasProcessedTargetLoop_first(_, _, _, _)
hasProcessedTargetLoop_first(packageJson, markers, props, compileAllFormats) ==
    IF props = <<>> THEN TRUE
    ELSE LET property == Head(props)
         IN  IF ~isFalsy(Get(packageJson, property))
             THEN hasBeenProcessed(markers, property)
             ELSE hasProcessedTargetLoop_first(packageJson, markers, Tail(props),
                                               compileAllFormats)

\* Faulty variant: with compileAllFormats false the loop goes on to the next
\* property when the first defined one is not processed.
RECURSIVE hasProcessedTargetLoop_any(_, _, _, _)
hasProcessedTargetLoop_any(packageJson, markers, props, compileAllFormats) ==
    IF props = <<>> THEN compileAllFormats
    ELSE LET property == Head(props)
         IN  IF ~isFalsy(Get(packageJson, property))
             THEN IF hasBeenProcessed(markers, property)
                  THEN IF ~compileAllFormats
                       THEN TRUE
                       ELSE hasProcessedTargetLoop_any(packageJson, markers, Tail(props),
                                                       compileAllFormats)
                  ELSE IF compileAllFormats
                       THEN FALSE
                       ELSE hasProcessedTargetLoop_any(packageJson, markers, Tail(props),
                                                       compileAllFormats)
             ELSE hasProcessedTargetLoop_any(packageJson, markers, Tail(props),
                                             compileAllFormats)

RECURSIVE hasProcessedTargetLoop(_, _, _, _)
hasProcessedTargetLoop(packageJson, markers, props, compileAllFormats) ==
    IF props = <<>> THEN TRUE
    ELSE LET property == Head(props)
         IN  IF ~isFalsy(Get(packageJson, property))
             THEN IF hasBeenProcessed(markers, property)
                  THEN IF ~compileAllFormats
                       THEN TRUE
                       ELSE hasProcessedTargetLoop(packageJson, markers, Tail(props),
                                                   compileAllFormats)
                  ELSE FALSE
             ELSE hasProcessedTargetLoop(packageJson, markers, Tail(props),
                                         compileAllFormats)

\* Faulty variant: the target is never found to be processed already.
hasProcessedTargetEntryPoint_never(markers, targetPath, propertiesToConsider, compileAllFormats) ==
    FALSE

hasProcessedTargetEntryPoint(markers, targetPath, propertiesToConsider, compileAllFormats) ==
    IF targetPath \notin Packages
    THEN FALSE
    ELSE hasProcessedTargetLoop(PackageJsonFormats[targetPath], markers[targetPath],
                                propertiesToConsider, compileAllFormats)

\* markNonAngularPackageAsProcessed(): all supported properties, no 'typings'.
\* Faulty variant: only the properties the package.json defines are marked.
markNonAngularPackageAsProcessed_defined(markers, path) ==
    [markers EXCEPT ![path] =
        markAsProcessed(@, {prop \in SupportedProperties :
                               Get(PackageJsonFormats[path], prop) # undefined})]

markNonAngularPackageAsProcessed(markers, path) ==
    [markers EXCEPT ![path] = markAsProcessed(@, SupportedProperties)]

\* getTargetedEntryPoints(): the finder's result, the error thrown (if any)
\* and the markers as the function leaves them.
\* Faulty variant: a target with missing dependencies is dropped like any
\* other invalid entry point, and the run goes on with what is left.
getTargetedEntryPoints_drop(markers, targetPath, propertiesToConsider, compileAllFormats) ==
    IF hasProcessedTargetEntryPoint(markers, targetPath, propertiesToConsider,
                                    compileAllFormats)
    THEN [entryPoints |-> <<>>, invalidEntryPoints |-> <<>>, graph |-> {},
          error |-> NoError, markers |-> markers, skipped |-> TRUE]
    ELSE LET entryPointInfo == TargetedEntryPointFinder(targetPath)
         IN  [entryPoints        |-> entryPointInfo.entryPoints,
              invalidEntryPoints |-> entryPointInfo.invalidEntryPoints,
              graph              |-> entryPointInfo.graph,
              error              |-> NoError,
              markers            |-> IF entryPointInfo.entryPoints = <<>>
                                     THEN markNonAngularPackageAsProcessed(
                                              markers, targetPath)
                                     ELSE markers,
              skipped            |-> FALSE]

\* Faulty variant: a target that the finder does not return as an entry
\* point is marked as a non-Angular package before its missing dependencies
\* are looked at.
getTargetedEntryPoints_markfirst(markers, targetPath, propertiesToConsider, compileAllFormats) ==
    IF hasProcessedTargetEntryPoint(markers, targetPath, propertiesToConsider,
                                    compileAllFormats)
    THEN [entryPoints |-> <<>>, invalidEntryPoints |-> <<>>, graph |-> {},
          error |-> NoError, markers |-> markers, skipped |-> TRUE]
    ELSE LET entryPointInfo == TargetedEntryPointFinder(targetPath)
             invalidTarget  == SelectSeq(entryPointInfo.invalidEntryPoints,
                                         LAMBDA i : i.entryPoint = targetPath)
             marked         == IF targetPath \notin Range(entryPointInfo.entryPoints)
                               THEN markNonAngularPackageAsProcessed(markers, targetPath)
                               ELSE markers
         IN  IF invalidTarget # <<>>
             THEN [entryPoints |-> <<>>, invalidEntryPoints |-> <<>>, graph |-> {},
                   error |-> [kind |-> "MissingDependencies",
                              tried |-> <<>>, paths |-> <<targetPath>>,
                              missing |-> invalidTarget[1].missingDependencies],
                   markers |-> marked, skipped |-> FALSE]
             ELSE [entryPoints        |-> entryPointInfo.entryPoints,
                   invalidEntryPoints |-> entryPointInfo.invalidEntryPoints,
                   graph              |-> entryPointInfo.graph,
                   error              |-> NoError,
                   markers            |-> marked,
                   skipped            |-> FALSE]

getTargetedEntryPoints(markers, targetPath, propertiesToConsider, compileAllFormats) ==
    IF hasProcessedTargetEntryPoint(markers, targetPath, propertiesToConsider,
                                    compileAllFormats)
    THEN [entryPoints |-> <<>>, invalidEntryPoints |-> <<>>, graph |-> {},
          error |-> NoError, markers |-> markers, skipped |-> TRUE]
    ELSE LET entryPointInfo == TargetedEntryPointFinder(targetPath)
             invalidTarget  == SelectSeq(entryPointInfo.invalidEntryPoints,
                                         LAMBDA i : i.entryPoint = targetPath)
         IN  IF invalidTarget # <<>>
             THEN [entryPoints |-> <<>>, invalidEntryPoints |-> <<>>, graph |-> {},
                   error |-> [kind |-> "MissingDependencies",
                              tried |-> <<>>, paths |-> <<targetPath>>,
                              missing |-> invalidTarget[1].missingDependencies],
                   markers |-> markers, skipped |-> FALSE]
             ELSE [entryPoints        |-> entryPointInfo.entryPoints,
                   invalidEntryPoints |-> entryPointInfo.invalidEntryPoints,
                   graph              |-> entryPointInfo.graph,
                   error              |-> NoError,
                   markers            |-> IF entryPointInfo.entryPoints = <<>>
                                          THEN markNonAngularPackageAsProcessed(
                                                   markers, targetPath)
                                          ELSE markers,
                   skipped            |-> FALSE]

\* Faulty variant: an invalid entry point of the tree fails the run, as an
\* invalid target does.
getAllEntryPoints_strict(markers) ==
    LET found == DirectoryWalkerEntryPointFinder
    IN  IF found.invalidEntryPoints # <<>>
        THEN [entryPoints |-> <<>>, invalidEntryPoints |-> <<>>, graph |-> {},
              error |-> [kind |-> "MissingDependencies", tried |-> <<>>,
                         paths |-> <<found.invalidEntryPoints[1].entryPoint>>,
                         missing |-> found.invalidEntryPoints[1].missingDependencies],
              markers |-> markers, skipped |-> FALSE]
        ELSE [entryPoints |-> found.entryPoints, invalidEntryPoints |-> <<>>,
              graph |-> found.graph, error |-> NoError, markers |-> markers,
              skipped |-> FALSE]

getAllEntryPoints(markers) ==
    [entryPoints        |-> DirectoryWalkerEntryPointFinder.entryPoints,
     invalidEntryPoints |-> DirectoryWalkerEntryPointFinder.invalidEntryPoints,
     graph              |-> DirectoryWalkerEntryPointFinder.graph,
     error              |-> NoError,
     markers            |-> markers,
     skipped            |-> FALSE]

\* Faulty variant: the target is not looked at, the whole tree is walked.
getEntryPoints_all(markers, targetEntryPointPath, propertiesToConsider, compileAllFormats) ==
    getAllEntryPoints(markers)

getEntryPoints(markers, targetEntryPointPath, propertiesToConsider, compileAllFormats) ==
    IF targetEntryPointPath # NoTarget
    THEN getTargetedEntryPoints(markers, targetEntryPointPath, propertiesToConsider,
                                compileAllFormats)
    ELSE getAllEntryPoints(markers)

\* Faulty variant: the first task of an entry point always carries the
\* typings, whether they bear a marker or not.
tasksOfEntryPoint_dts(markers, entryPoint, propertiesToConsider, compileAllFormats) ==
    LET packageJson == PackageJsonFormats[entryPoint]
        plan == getPropertiesToProcess(packageJson, propertiesToConsider, compileAllFormats)
    IN  [i \in 1..Len(plan.propertiesToProcess) |->
            [entryPoint     |-> entryPoint,
             formatProperty |-> plan.propertiesToProcess[i],
             formatPropertiesToMarkAsProcessed |->
                 plan.equivalentPropertiesMap[plan.propertiesToProcess[i]],
             processDts     |-> (i = 1)]]

\* Faulty variant: every task of an entry point whose typings bear no marker
\* carries the typings, not the first one only.
tasksOfEntryPoint_alldts(markers, entryPoint, propertiesToConsider, compileAllFormats) ==
    LET packageJson == PackageJsonFormats[entryPoint]
        hasProcessedTypings == hasBeenProcessed(markers[entryPoint], "typings")
        plan == getPropertiesToProcess(packageJson, propertiesToConsider, compileAllFormats)
    IN  [i \in 1..Len(plan.propertiesToProcess) |->
            [entryPoint     |-> entryPoint,
             formatProperty |-> plan.propertiesToProcess[i],
             formatPropertiesToMarkAsProcessed |->
                 plan.equivalentPropertiesMap[plan.propertiesToProcess[i]],
             processDts     |-> ~hasProcessedTypings]]

\* Faulty variant: the typings go with the last task pushed for the entry
\* point, not with the first.
tasksOfEntryPoint_lastdts(markers, entryPoint, propertiesToConsider, compileAllFormats) ==
    LET packageJson == PackageJsonFormats[entryPoint]
        hasProcessedTypings == hasBeenProcessed(markers[entryPoint], "typings")
        plan == getPropertiesToProcess(packageJson, propertiesToConsider, compileAllFormats)
    IN  [i \in 1..Len(plan.propertiesToProcess) |->
            [entryPoint     |-> entryPoint,
             formatProperty |-> plan.propertiesToProcess[i],
             formatPropertiesToMarkAsProcessed |->
                 plan.equivalentPropertiesMap[plan.propertiesToProcess[i]],
             processDts     |-> (i = Len(plan.propertiesToProcess)) /\ ~hasProcessedTypings]]

\* The tasks analyzeEntryPoints() pushes for one entry point.
tasksOfEntryPoint(markers, entryPoint, propertiesToConsider, compileAllFormats) ==
    LET packageJson == PackageJsonFormats[entryPoint]
        hasProcessedTypings == hasBeenProcessed(markers[entryPoint], "typings")
        plan == getPropertiesToProcess(packageJson, propertiesToConsider, compileAllFormats)
    IN  [i \in 1..Len(plan.propertiesToProcess) |->
            [entryPoint     |-> entryPoint,
             formatProperty |-> plan.propertiesToProcess[i],
             formatPropertiesToMarkAsProcessed |->
                 plan.equivalentPropertiesMap[plan.propertiesToProcess[i]],
             processDts     |-> (i = 1) /\ ~hasProcessedTypings]]

\* Faulty variant: the tasks of an entry point are put in front of the
\* tasks pushed before, so the list runs against the entry-point order.
RECURSIVE tasksOfEntryPoints_unshift(_, _, _, _)
tasksOfEntryPoints_unshift(markers, entryPoints, propertiesToConsider, compileAllFormats) ==
    IF entryPoints = <<>> THEN <<>>
    ELSE tasksOfEntryPoints_unshift(markers, Tail(entryPoints), propertiesToConsider,
                                    compileAllFormats)
         \o tasksOfEntryPoint(markers, Head(entryPoints), propertiesToConsider,
                              compileAllFormats)

RECURSIVE tasksOfEntryPoints(_, _, _, _)
tasksOfEntryPoints(markers, entryPoints, propertiesToConsider, compileAllFormats) ==
    IF entryPoints = <<>> THEN <<>>
    ELSE tasksOfEntryPoint(markers, Head(entryPoints), propertiesToConsider,
                           compileAllFormats)
         \o tasksOfEntryPoints(markers, Tail(entryPoints), propertiesToConsider,
                               compileAllFormats)

\* Faulty variant: the loop stops at the first unprocessable entry point
\* instead of collecting them all.
unprocessableEntryPointPaths_first(entryPoints, propertiesToConsider, compileAllFormats) ==
    LET all == SelectSeq(entryPoints,
                   LAMBDA e : Len(getPropertiesToProcess(PackageJsonFormats[e],
                                      propertiesToConsider,
                                      compileAllFormats).propertiesToProcess) = 0)
    IN  IF all = <<>> THEN <<>> ELSE <<Head(all)>>

\* Faulty variant: an unprocessable entry point is skipped without being
\* recorded, so the run goes on with the others.
unprocessableEntryPointPaths_none(entryPoints, propertiesToConsider, compileAllFormats) ==
    <<>>

\* The entry points for which the loop finds no property to process.
unprocessableEntryPointPaths(entryPoints, propertiesToConsider, compileAllFormats) ==
    SelectSeq(entryPoints,
              LAMBDA e : Len(getPropertiesToProcess(PackageJsonFormats[e],
                                 propertiesToConsider,
                                 compileAllFormats).propertiesToProcess) = 0)

\* analyzeEntryPoints(): the tasks and the graph handed to getTaskQueue(), or
\* the error thrown, and the markers as the analysis leaves them.
\* logger.debug() in getTargetedEntryPoints()
AlreadyProcessedMessage == "The target entry-point has already been processed"

targetLog(skipped) == IF skipped THEN {AlreadyProcessedMessage} ELSE {}

analyzeEntryPoints(markers, options) ==
    LET supportedPropertiesToConsider ==
            ensureSupportedProperties(options.propertiesToConsider)
        found == getEntryPoints(markers, options.targetEntryPointPath,
                                supportedPropertiesToConsider, options.compileAllFormats)
        unprocessable == unprocessableEntryPointPaths(found.entryPoints,
                             supportedPropertiesToConsider, options.compileAllFormats)
        tasks == tasksOfEntryPoints(found.markers, found.entryPoints,
                                    supportedPropertiesToConsider,
                                    options.compileAllFormats)
    IN  IF supportedPropertiesToConsider = <<>>
        THEN [tasks |-> <<>>, graph |-> {}, markers |-> markers, entryPoints |-> <<>>,
              invalidEntryPoints |-> <<>>, log |-> {},
              error |-> NoSupportedPropertyError(options.propertiesToConsider)]
        ELSE IF found.error # NoError
        THEN [tasks |-> <<>>, graph |-> {}, markers |-> found.markers,
              entryPoints |-> <<>>, invalidEntryPoints |-> <<>>, log |-> {},
              error |-> found.error]
        ELSE IF Len(unprocessable) > 0
        THEN [tasks |-> <<>>, graph |-> {}, markers |-> found.markers,
              entryPoints |-> found.entryPoints,
              invalidEntryPoints |-> found.invalidEntryPoints,
              log |-> targetLog(found.skipped),
              error |-> [kind  |-> "UnprocessableEntryPoints",
                         tried |-> options.propertiesToConsider,
                         paths |-> unprocessable,
                         missing |-> {}]]
        ELSE [tasks |-> tasks, graph |-> found.graph, markers |-> found.markers,
              entryPoints |-> found.entryPoints,
              invalidEntryPoints |-> found.invalidEntryPoints,
              log |-> targetLog(found.skipped), error |-> NoError]

(***************************************************************************)
(* main.ts: the choice of updater, task queue and executor.                *)
(***************************************************************************)
\* Faulty variant: the number of CPU cores is not looked at.
inParallelOf_async(async, cpuCount) == async

\* `async && (os.cpus().length > 1)`
inParallelOf(async, cpuCount) == async /\ (cpuCount > 1)

\* Faulty variant: the direct updater is handed out in the parallel case too.
getPackageJsonUpdater_direct(inParallel) == "DirectPackageJsonUpdater"

getPackageJsonUpdater(inParallel) ==
    IF inParallel THEN "ClusterPackageJsonUpdater" ELSE "DirectPackageJsonUpdater"

Min(a, b) == IF a < b THEN a ELSE b

getExecutor(async, inParallel, cpuCount) ==
    IF inParallel
    THEN [kind |-> "ClusterExecutor", workerCount |-> Min(MaxWorkers, cpuCount - 1)]
    ELSE IF async
    THEN [kind |-> "AsyncSingleProcessExecutor", workerCount |-> 0]
    ELSE [kind |-> "SingleProcessExecutor", workerCount |-> 0]

(***************************************************************************)
(* The task queues.                                                        *)
(***************************************************************************)
\* getNextTask() returns null
NoTask == [entryPoint |-> "null", formatProperty |-> "null",
           formatPropertiesToMarkAsProcessed |-> <<>>, processDts |-> FALSE]

NoQueue == [kind |-> "none", tasks |-> <<>>, inProgressTasks |-> {},
            blockedCount |-> <<>>]

\* The entry points with a task that is neither completed nor handed out
\* and completed: the ones that still have incomplete tasks.
unfinishedEntryPoints(tasks, inProgressTasks) ==
    {t.entryPoint : t \in Range(tasks) \cup inProgressTasks}

\* new SerialTaskQueue(tasks)
SerialTaskQueue(tasks) ==
    [kind |-> "SerialTaskQueue", tasks |-> tasks, inProgressTasks |-> {},
     blockedCount |-> <<>>]

\* new ParallelTaskQueue(tasks, graph): each task starts with the number of
\* entry points of the graph it depends on that have tasks.
ParallelTaskQueue(tasks, graph) ==
    [kind |-> "ParallelTaskQueue", tasks |-> tasks, inProgressTasks |-> {},
     blockedCount |->
         [t \in Range(tasks) |->
             Cardinality(dependenciesOf(t.entryPoint) \cap graph
                         \cap unfinishedEntryPoints(tasks, {}))]]

\* Faulty variant: the parallel queue is made without the dependency graph.
getTaskQueue_nograph(inParallel, tasks, graph) ==
    IF inParallel THEN ParallelTaskQueue(tasks, {}) ELSE SerialTaskQueue(tasks)

getTaskQueue(inParallel, tasks, graph) ==
    IF inParallel THEN ParallelTaskQueue(tasks, graph) ELSE SerialTaskQueue(tasks)

\* Faulty variant: the tasks in flight are not counted.
allTasksCompleted_listonly(queue) ==
    Len(queue.tasks) = 0

allTasksCompleted(queue) ==
    (Len(queue.tasks) = 0) /\ (queue.inProgressTasks = {})

\* SerialTaskQueue.getNextTask(): the head of the remaining list.
SerialGetNextTask(queue) ==
    IF queue.tasks = <<>>
    THEN [task |-> NoTask, queue |-> queue]
    ELSE [task  |-> Head(queue.tasks),
          queue |-> [queue EXCEPT !.tasks = Tail(@),
                                  !.inProgressTasks = @ \cup {Head(queue.tasks)}]]

\* Faulty variant: the task returned stays in the list of the queue.
ParallelGetNextTask_keep(queue) ==
    LET eligible == SelectSeq(queue.tasks, LAMBDA t : queue.blockedCount[t] = 0)
    IN  IF eligible = <<>>
        THEN [task |-> NoTask, queue |-> queue]
        ELSE [task  |-> Head(eligible),
              queue |-> [queue EXCEPT !.inProgressTasks = @ \cup {Head(eligible)}]]

\* ParallelTaskQueue.getNextTask(): the first task that nothing blocks.
ParallelGetNextTask(queue) ==
    LET eligible == SelectSeq(queue.tasks, LAMBDA t : queue.blockedCount[t] = 0)
    IN  IF eligible = <<>>
        THEN [task |-> NoTask, queue |-> queue]
        ELSE [task  |-> Head(eligible),
              queue |-> [queue EXCEPT
                            !.tasks = SelectSeq(@, LAMBDA t : t # Head(eligible)),
                            !.inProgressTasks = @ \cup {Head(eligible)}]]

getNextTask(queue) ==
    IF queue.kind = "ParallelTaskQueue"
    THEN ParallelGetNextTask(queue)
    ELSE SerialGetNextTask(queue)

\* Faulty variant: the completion of the last task of an entry point does
\* not unblock the tasks of its dependents.
markTaskCompleted_nounblock(queue, task) ==
    [queue EXCEPT !.inProgressTasks = @ \ {task}]

\* markTaskCompleted(): the task leaves the in-progress set; in the parallel
\* queue the completion of the last task of an entry point unblocks the
\* tasks of its dependents.
markTaskCompleted(queue, task) ==
    LET inProgress == queue.inProgressTasks \ {task}
        lastOfEntryPoint ==
            task.entryPoint \notin unfinishedEntryPoints(queue.tasks, inProgress)
    IN  [queue EXCEPT
            !.inProgressTasks = inProgress,
            !.blockedCount =
                IF queue.kind = "ParallelTaskQueue" /\ lastOfEntryPoint
                THEN [t \in DOMAIN @ |->
                         IF task.entryPoint \in dependenciesOf(t.entryPoint)
                         THEN @[t] - 1 ELSE @[t]]
                ELSE @]

(***************************************************************************)
(* main.ts: the compile function made by createCompileFn().                *)
(***************************************************************************)
\* getEntryPointFormat(): every supported property has a format.
getEntryPointFormat(entryPoint, formatProperty) ==
    IF formatProperty \in SupportedProperties THEN formatProperty ELSE undefined

\* InPlaceFileWriter.writeBundle(): the bundle's files, and the typings
\* files when the bundle carries them.
writeBundle(files, task, formatPath) ==
    files \cup {<<task.entryPoint, formatPath>>}
          \cup (IF task.processDts THEN {<<task.entryPoint, "typings">>} ELSE {})

\* Faulty variant: the compile step does not look at the marker of the
\* task's property and compiles it again.
compile_again(markers, files, task, transformOk) ==
    LET formatPath == Get(PackageJsonFormats[task.entryPoint], task.formatProperty)
        format     == getEntryPointFormat(task.entryPoint, task.formatProperty)
    IN  IF isFalsy(formatPath) \/ format = undefined
        THEN [outcome |-> "none", files |-> files,
              error |-> [kind |-> "InvariantViolated", tried |-> <<>>,
                         paths |-> <<task.entryPoint>>, missing |-> {}]]
        ELSE IF transformOk
        THEN [outcome |-> "Processed", files |-> writeBundle(files, task, formatPath),
              error |-> NoError]
        ELSE [outcome |-> "none", files |-> files,
              error |-> [kind |-> "CompileError", tried |-> <<>>,
                         paths |-> <<task.entryPoint>>, missing |-> {}]]

\* compile(task): the outcome passed to onTaskCompleted(), or the error
\* thrown, and the files as the step leaves them. `transformOk` is the
\* result of Transformer.transform().
compile(markers, files, task, transformOk) ==
    LET formatPath == Get(PackageJsonFormats[task.entryPoint], task.formatProperty)
        format     == getEntryPointFormat(task.entryPoint, task.formatProperty)
    IN  IF isFalsy(formatPath) \/ format = undefined
        THEN [outcome |-> "none", files |-> files,
              error |-> [kind |-> "InvariantViolated", tried |-> <<>>,
                         paths |-> <<task.entryPoint>>, missing |-> {}]]
        ELSE IF hasBeenProcessed(markers[task.entryPoint], task.formatProperty)
        THEN [outcome |-> "AlreadyProcessed", files |-> files, error |-> NoError]
        ELSE IF transformOk
        THEN [outcome |-> "Processed", files |-> writeBundle(files, task, formatPath),
              error |-> NoError]
        ELSE [outcome |-> "none", files |-> files,
              error |-> [kind |-> "CompileError", tried |-> <<>>,
                         paths |-> <<task.entryPoint>>, missing |-> {}]]

\* Faulty variant: the write does not read the package.json first; the file
\* written back holds the new markers only.
onTaskCompleted_overwrite(markers, task, outcome) ==
    IF outcome = "Processed"
    THEN [markers EXCEPT ![task.entryPoint] =
             Range(task.formatPropertiesToMarkAsProcessed)
                \cup (IF task.processDts THEN {"typings"} ELSE {})]
    ELSE markers

\* onTaskCompleted(pkgJsonUpdater, task, outcome): a processed task marks its
\* format properties, and 'typings' when it processed them.
onTaskCompleted(markers, task, outcome) ==
    IF outcome = "Processed"
    THEN [markers EXCEPT ![task.entryPoint] =
             markAsProcessed(@, Range(task.formatPropertiesToMarkAsProcessed)
                                \cup (IF task.processDts THEN {"typings"} ELSE {}))]
    ELSE markers

(***************************************************************************)
(* How execute(), and so mainNgcc(), answers its caller.                   *)
(* SingleProcessExecutor.execute() is a plain function: it returns or      *)
(* throws.  AsyncSingleProcessExecutor.execute() is an `async` function    *)
(* around it: it runs to the end and hands back a promise that is resolved *)
(* or rejected.  The cluster executor hands back its promise at once and   *)
(* settles it later.                                                       *)
(***************************************************************************)
\* Faulty variant: AsyncSingleProcessExecutor.execute() without `async`.
executeCompletion_sync(kind, failed) ==
    IF kind \in {"SingleProcessExecutor", "AsyncSingleProcessExecutor"}
    THEN IF failed THEN "thrown" ELSE "returned"
    ELSE IF failed THEN "rejected" ELSE "resolved"

executeCompletion(kind, failed) ==
    IF kind = "SingleProcessExecutor"
    THEN IF failed THEN "thrown" ELSE "returned"
    ELSE IF failed THEN "rejected" ELSE "resolved"

\* Faulty variant: the asynchronous single-process executor hands back its
\* promise before the loop and goes on between the turns of its caller.
executeRunning_suspend(kind) ==
    IF kind = "SingleProcessExecutor" THEN "running" ELSE "pending"

\* While the tasks are processed the caller of a single-process executor
\* is still inside the call; the caller of the cluster holds a promise.
executeRunning(kind) ==
    IF kind = "ClusterExecutor" THEN "pending" ELSE "running"

(***************************************************************************)
(* The inputs of a run.                                                    *)
(***************************************************************************)
\* The values given to the `propertiesToConsider` option; the last one is
\* the default (SUPPORTED_FORMAT_PROPERTIES itself).
PropertyLists ==
    { <<"fesm2015">>,
      <<"es2015">>,
      <<"module", "fesm5", "esm5">>,
      <<"missing", "main", "es2015">>,
      <<"es1337", "fesm42">>,
      SUPPORTED_FORMAT_PROPERTIES }

\* The values given to the `targetEntryPointPath` option.
TargetPaths == {NoTarget, "common", "testpkg", "invalid", "ignored"}

Options ==
    [targetEntryPointPath : TargetPaths,
     propertiesToConsider : PropertyLists,
     compileAllFormats    : BOOLEAN,
     async                : BOOLEAN]

(***************************************************************************)
(* The command line (main-ngcc.ts).                                        *)
(***************************************************************************)
\* mainNgcc() was called by a program, not by the command line.
NoArgv == [formats |-> <<>>, properties |-> <<>>, target |-> "library",
           firstOnly |-> FALSE]

\* The arguments as yargs parses them: -f, -p, -t and --first-only.
CliArgs ==
    [formats    : {<<>>, <<"fesm2015">>},
     properties : {<<"es2015">>, <<"es1337", "fesm42">>},
     target     : {NoTarget, "common"},
     firstOnly  : BOOLEAN]

\* Faulty variant: the command line leaves `async` at its default.
cliOptions_sync(args) ==
    [targetEntryPointPath |-> args.target,
     propertiesToConsider |-> args.properties,
     compileAllFormats    |-> ~args.firstOnly,
     async                |-> FALSE]

\* The options the command line passes to mainNgcc().
cliOptions(args) ==
    [targetEntryPointPath |-> args.target,
     propertiesToConsider |-> args.properties,
     compileAllFormats    |-> ~args.firstOnly,
     async                |-> TRUE]

\* process.exitCode: not set, 0 or 1.
NoExitCode == <<>>

\* `try { await mainNgcc(...); process.exitCode = 0; } catch { process.exitCode = 1; }`
\* A caller other than the command line sets no exit code.
exitCodeOf(args, answer) ==
    IF args = NoArgv THEN NoExitCode
    ELSE IF answer \in {"resolved", "returned"} THEN <<0>>
    ELSE IF answer \in {"rejected", "thrown"} THEN <<1>>
    ELSE NoExitCode

(***************************************************************************)
(* The state.                                                              *)
(***************************************************************************)
VARIABLES
    processed_by_ivy_ngcc,  \* package -> the marker keys in its package.json
    writtenFiles,           \* the <<package, file>> pairs written in this run
    cpus,                   \* os.cpus().length
    runs,                   \* how many times mainNgcc() has been called
    pc,                     \* "idle", "processing", "done" or "failed"
    options,                \* the options of the current (or last) run
    executor,               \* the executor made by getExecutor()
    pkgJsonUpdater,         \* the updater made by getPackageJsonUpdater()
    taskQueue,              \* the queue returned by analyzeEntryPoints()
    workers,                \* the cluster's workers: what each is doing
    error,                  \* the error the run threw (or rejected with)
    entryPoints,            \* the entry points getEntryPoints() returned
    invalidEntryPoints,     \* the entry points logInvalidEntryPoints() logged
    debugLog,               \* the debug messages of the analysis
    planned,                \* the tasks of the run, as analysed
    history,                \* per planned task: hand-outs, completions, outcome
    markersAtStart,         \* the markers when the run started
    rerunOfSuccess,         \* the run repeats the options of a successful run
    completion,             \* how mainNgcc() has answered its caller
    argv,                   \* the arguments of the command line (or NoArgv)
    exitCode                \* process.exitCode

vars == <<processed_by_ivy_ngcc, writtenFiles, cpus, runs, pc, options, executor,
          pkgJsonUpdater, taskQueue, workers, error, entryPoints, invalidEntryPoints,
          debugLog, planned, history, markersAtStart, rerunOfSuccess, completion,
          argv, exitCode>>

NoHistory == [handedOut |-> 0, completed |-> 0, outcome |-> "none"]

IdleWorker == [state |-> "idle", task |-> NoTask, outcome |-> "none"]

\* The defaults of mainNgcc()'s options.
DefaultOptions ==
    [targetEntryPointPath |-> NoTarget,
     propertiesToConsider |-> SUPPORTED_FORMAT_PROPERTIES,
     compileAllFormats    |-> TRUE,
     async                |-> FALSE]

\* No run is under way: only the package.json files hold state.
Idle ==
    /\ pc = "idle"
    /\ options = DefaultOptions
    /\ executor = getExecutor(FALSE, FALSE, 1)
    /\ pkgJsonUpdater = getPackageJsonUpdater(FALSE)
    /\ taskQueue = NoQueue
    /\ workers = <<>>
    /\ error = NoError
    /\ entryPoints = <<>>
    /\ invalidEntryPoints = <<>>
    /\ debugLog = {}
    /\ planned = <<>>
    /\ history = <<>>
    /\ writtenFiles = {}
    /\ rerunOfSuccess = FALSE
    /\ completion = "none"
    /\ argv = NoArgv
    /\ exitCode = NoExitCode

Init ==
    /\ processed_by_ivy_ngcc = [p \in Packages |-> {}]
    /\ markersAtStart = processed_by_ivy_ngcc
    /\ cpus \in 1..MaxCpus
    /\ runs = 0
    /\ Idle

(***************************************************************************)
(* mainNgcc(options): the updater and the executor are made, and            *)
(* executor.execute() runs analyzeEntryPoints(), which returns the task    *)
(* queue or throws.  A run starts in a fresh process, or repeats the        *)
(* options of the run that has just succeeded.                             *)
(***************************************************************************)
mainNgcc(opts, args) ==
    /\ runs < MaxRuns
    /\ argv' = args
    /\ \E analysis \in {analyzeEntryPoints(processed_by_ivy_ngcc, opts)} :
       LET inParallel == inParallelOf(opts.async, cpus)
           exec       == getExecutor(opts.async, inParallel, cpus)
       IN  /\ runs' = runs + 1
           /\ writtenFiles' = {}
           /\ options' = opts
           /\ pkgJsonUpdater' = getPackageJsonUpdater(inParallel)
           /\ executor' = exec
           /\ markersAtStart' = processed_by_ivy_ngcc
           /\ rerunOfSuccess' = ((pc = "done") /\ (opts = options))
           /\ processed_by_ivy_ngcc' = analysis.markers
           /\ error' = analysis.error
           /\ entryPoints' = analysis.entryPoints
           /\ invalidEntryPoints' = analysis.invalidEntryPoints
           /\ debugLog' = analysis.log
           /\ planned' = analysis.tasks
           /\ history' = [t \in Range(analysis.tasks) |-> NoHistory]
           /\ workers' = [w \in 1..exec.workerCount |-> IdleWorker]
           /\ IF analysis.error # NoError
              THEN /\ pc' = "failed"
                   /\ taskQueue' = NoQueue
                   /\ completion' = executeCompletion(exec.kind, TRUE)
                   /\ exitCode' = exitCodeOf(args, executeCompletion(exec.kind, TRUE))
              ELSE /\ pc' = "processing"
                   /\ completion' = executeRunning(exec.kind)
                   /\ exitCode' = NoExitCode
                   /\ taskQueue' = getTaskQueue(inParallel, analysis.tasks, analysis.graph)
    /\ UNCHANGED cpus

\* A program calls mainNgcc(), in a fresh process or again with the options
\* of the run that has just succeeded.
MainNgcc(opts) ==
    /\ argv = NoArgv
    /\ \/ pc = "idle"
       \/ pc = "done" /\ opts = options
    /\ mainNgcc(opts, NoArgv)

\* The command line is run.  With -f/--formats it prints that the option
\* has been removed and exits with code 1; otherwise it awaits mainNgcc().
NgccCli(args) ==
    /\ pc = "idle"
    /\ argv = NoArgv
    /\ IF args.formats # <<>>
       THEN /\ argv' = args
            /\ exitCode' = <<1>>
            /\ UNCHANGED <<processed_by_ivy_ngcc, writtenFiles, cpus, runs, pc, options,
                           executor, pkgJsonUpdater, taskQueue, workers, error,
                           entryPoints, invalidEntryPoints, debugLog, planned, history,
                           markersAtStart, rerunOfSuccess, completion>>
       ELSE mainNgcc(cliOptions(args), args)

(***************************************************************************)
(* SingleProcessExecutor.execute(): one pass through the loop              *)
(*   task = getNextTask(); compile(task); markTaskCompleted(task)          *)
(* where compile() calls onTaskCompleted() or throws.                      *)
(***************************************************************************)
\* Faulty variant: markTaskCompleted(task) runs although compile(task) threw
\* (as it would in a `finally` block).
CompileThrows_finally(queue, task, thrown) ==
    /\ pc' = "failed"
    /\ completion' = executeCompletion(executor.kind, TRUE)
    /\ exitCode' = exitCodeOf(argv, executeCompletion(executor.kind, TRUE))
    /\ error' = thrown
    /\ taskQueue' = markTaskCompleted(queue, task)
    /\ history' = [history EXCEPT ![task].handedOut = @ + 1,
                                  ![task].completed = @ + 1]
    /\ UNCHANGED processed_by_ivy_ngcc

\* compile(task) throws: the error leaves the loop and execute().
CompileThrows(queue, task, thrown) ==
    /\ pc' = "failed"
    /\ completion' = executeCompletion(executor.kind, TRUE)
    /\ exitCode' = exitCodeOf(argv, executeCompletion(executor.kind, TRUE))
    /\ error' = thrown
    /\ taskQueue' = queue
    /\ history' = [history EXCEPT ![task].handedOut = @ + 1]
    /\ UNCHANGED processed_by_ivy_ngcc

\* Faulty variant: the loop does not call markTaskCompleted(task).
CompileReturns_nomark(queue, task, outcome) ==
    /\ processed_by_ivy_ngcc' = onTaskCompleted(processed_by_ivy_ngcc, task, outcome)
    /\ taskQueue' = queue
    /\ history' = [history EXCEPT ![task].handedOut = @ + 1,
                                  ![task].completed = @ + 1,
                                  ![task].outcome = outcome]
    /\ UNCHANGED <<pc, error, completion, exitCode>>

\* compile(task) returns, having called onTaskCompleted(); the loop goes on
\* to markTaskCompleted(task).
CompileReturns(queue, task, outcome) ==
    /\ processed_by_ivy_ngcc' = onTaskCompleted(processed_by_ivy_ngcc, task, outcome)
    /\ taskQueue' = markTaskCompleted(queue, task)
    /\ history' = [history EXCEPT ![task].handedOut = @ + 1,
                                  ![task].completed = @ + 1,
                                  ![task].outcome = outcome]
    /\ UNCHANGED <<pc, error, completion, exitCode>>

ProcessNextTask ==
    /\ pc = "processing"
    /\ executor.kind \in {"SingleProcessExecutor", "AsyncSingleProcessExecutor"}
    /\ ~allTasksCompleted(taskQueue)
    /\ \E transformOk \in BOOLEAN :
         LET next   == getNextTask(taskQueue)
             task   == next.task
             result == compile(processed_by_ivy_ngcc, writtenFiles, task, transformOk)
         IN  /\ task # NoTask
             /\ writtenFiles' = result.files
             /\ IF result.error # NoError
                THEN CompileThrows(next.queue, task, result.error)
                ELSE CompileReturns(next.queue, task, result.outcome)
    /\ UNCHANGED <<cpus, runs, options, executor, pkgJsonUpdater, workers, entryPoints,
                   invalidEntryPoints, debugLog,
                   planned, markersAtStart, rerunOfSuccess, argv>>

\* The loop ends when `taskQueue.allTasksCompleted` holds: execute() returns.
ExecuteReturn ==
    /\ pc = "processing"
    /\ allTasksCompleted(taskQueue)
    /\ \A w \in DOMAIN workers : workers[w].state = "idle"
    /\ pc' = "done"
    /\ completion' = executeCompletion(executor.kind, FALSE)
    /\ exitCode' = exitCodeOf(argv, executeCompletion(executor.kind, FALSE))
    /\ UNCHANGED <<processed_by_ivy_ngcc, writtenFiles, cpus, runs, options, executor,
                   pkgJsonUpdater, taskQueue, workers, error, entryPoints,
                   invalidEntryPoints, debugLog, planned,
                   history, markersAtStart, rerunOfSuccess, argv>>

(***************************************************************************)
(* The cluster executor: the master hands the next task to an idle worker, *)
(* the worker compiles it and reports the outcome, and the master then     *)
(* updates the package.json and the queue.                                 *)
(***************************************************************************)
\* The workers are interchangeable: of the idle ones the first takes the task.
ClusterAssignTask(w) ==
    /\ pc = "processing"
    /\ executor.kind = "ClusterExecutor"
    /\ workers[w].state = "idle"
    /\ \A v \in DOMAIN workers : v < w => workers[v].state # "idle"
    /\ LET next == getNextTask(taskQueue)
       IN  /\ next.task # NoTask
           /\ taskQueue' = next.queue
           /\ workers' = [workers EXCEPT ![w] = [state |-> "busy", task |-> next.task,
                                                 outcome |-> "none"]]
           /\ history' = [history EXCEPT ![next.task].handedOut = @ + 1]
    /\ UNCHANGED <<processed_by_ivy_ngcc, writtenFiles, cpus, runs, pc, options, executor,
                   pkgJsonUpdater, error, entryPoints, invalidEntryPoints, debugLog, planned,
                   markersAtStart,
                   rerunOfSuccess, completion, argv, exitCode>>

WorkerCompile(w) ==
    /\ pc = "processing"
    /\ executor.kind = "ClusterExecutor"
    /\ workers[w].state = "busy"
    /\ \E transformOk \in BOOLEAN :
         LET task   == workers[w].task
             result == compile(processed_by_ivy_ngcc, writtenFiles, task, transformOk)
         IN  /\ writtenFiles' = result.files
             /\ IF result.error # NoError
                THEN /\ pc' = "failed"
                     /\ completion' = executeCompletion(executor.kind, TRUE)
                     /\ exitCode' = exitCodeOf(argv, executeCompletion(executor.kind, TRUE))
                     /\ error' = result.error
                     /\ UNCHANGED workers
                ELSE /\ workers' = [workers EXCEPT ![w].state = "reported",
                                                   ![w].outcome = result.outcome]
                     /\ UNCHANGED <<pc, error, completion, exitCode>>
    /\ UNCHANGED <<processed_by_ivy_ngcc, cpus, runs, options, executor, pkgJsonUpdater,
                   taskQueue, entryPoints, invalidEntryPoints, debugLog, planned,
                   history, markersAtStart,
                   rerunOfSuccess, argv>>

MasterTaskCompleted(w) ==
    /\ pc = "processing"
    /\ executor.kind = "ClusterExecutor"
    /\ workers[w].state = "reported"
    /\ LET task == workers[w].task
       IN  /\ processed_by_ivy_ngcc' =
                  onTaskCompleted(processed_by_ivy_ngcc, task, workers[w].outcome)
           /\ taskQueue' = markTaskCompleted(taskQueue, task)
           /\ history' = [history EXCEPT ![task].completed = @ + 1,
                                         ![task].outcome = workers[w].outcome]
           /\ workers' = [workers EXCEPT ![w] = IdleWorker]
    /\ UNCHANGED <<writtenFiles, cpus, runs, pc, options, executor, pkgJsonUpdater,
                   error, entryPoints, invalidEntryPoints, debugLog, planned, markersAtStart,
                   rerunOfSuccess,
                   completion, argv, exitCode>>

\* The process that ran mainNgcc() ends: what it held in memory is gone, the
\* package.json files stay.
ProcessExit ==
    /\ \/ pc \in {"done", "failed"}
       \/ pc = "idle" /\ argv # NoArgv
    /\ pc' = "idle"
    /\ options' = DefaultOptions
    /\ executor' = getExecutor(FALSE, FALSE, 1)
    /\ pkgJsonUpdater' = getPackageJsonUpdater(FALSE)
    /\ taskQueue' = NoQueue
    /\ workers' = <<>>
    /\ error' = NoError
    /\ entryPoints' = <<>>
    /\ invalidEntryPoints' = <<>>
    /\ debugLog' = {}
    /\ planned' = <<>>
    /\ history' = <<>>
    /\ writtenFiles' = {}
    /\ rerunOfSuccess' = FALSE
    /\ completion' = "none"
    /\ argv' = NoArgv
    /\ exitCode' = NoExitCode
    /\ markersAtStart' = processed_by_ivy_ngcc
    /\ UNCHANGED <<processed_by_ivy_ngcc, cpus, runs>>

Next ==
    \/ \E opts \in Options : MainNgcc(opts)
    \/ \E args \in CliArgs : NgccCli(args)
    \/ ProcessExit
    \/ ProcessNextTask
    \/ ExecuteReturn
    \/ \E w \in DOMAIN workers : ClusterAssignTask(w)
    \/ \E w \in DOMAIN workers : WorkerCompile(w)
    \/ \E w \in DOMAIN workers : MasterTaskCompleted(w)

Spec == Init /\ [][Next]_vars

\* The loop of execute() runs on the calling thread: once entered it goes
\* on to the next task while one is left, and execute() returns when none
\* is.
FairSpec == Spec /\ WF_vars(ProcessNextTask) /\ WF_vars(ExecuteReturn)

\* The cluster at work: the master goes on handing out tasks and recording
\* outcomes, and the workers go on compiling what they were given.
ClusterFairSpec ==
    /\ Spec
    /\ WF_vars(\E w \in DOMAIN workers : ClusterAssignTask(w))
    /\ WF_vars(\E w \in DOMAIN workers : WorkerCompile(w))
    /\ WF_vars(\E w \in DOMAIN workers : MasterTaskCompleted(w))
    /\ WF_vars(ExecuteReturn)

TypeOK ==
    /\ processed_by_ivy_ngcc \in [Packages -> SUBSET MarkerKeys]
    /\ pc \in {"idle", "processing", "done", "failed"}
    /\ runs \in 0..MaxRuns
    /\ options \in Options
    /\ completion \in {"none", "running", "pending", "returned", "thrown",
                        "resolved", "rejected"}
    /\ argv \in CliArgs \cup {NoArgv}
    /\ exitCode \in {NoExitCode, <<0>>, <<1>>}

(***************************************************************************)
(* Vocabulary of the properties.                                           *)
(***************************************************************************)
\* The supported properties among the ones the run was asked to consider.
ConsideredProperties ==
    {prop \in Range(options.propertiesToConsider) : prop \in SupportedProperties}

\* The package.json of the entry point defines none of them.
DefinesNone(e) ==
    \A prop \in ConsideredProperties : ~isString(Get(PackageJsonFormats[e], prop))

SingleProcess ==
    executor.kind \in {"SingleProcessExecutor", "AsyncSingleProcessExecutor"}

\* The marker keys a task writes when it has been processed.
Marks(t) ==
    Range(t.formatPropertiesToMarkAsProcessed)
        \cup (IF t.processDts THEN {"typings"} ELSE {})

\* The bundle file of a task.
BundleOf(t) == <<t.entryPoint, Get(PackageJsonFormats[t.entryPoint], t.formatProperty)>>

(***************************************************************************)
(* C1.  When the analysis finds entry points whose package.json defines    *)
(* none of the supported properties to consider, the run fails with the    *)
(* one 'Unable to process any formats' error, and the error lists exactly  *)
(* those entry points, all of them, in entry-point order; the error is     *)
(* raised in no other case.                                                *)
(***************************************************************************)
C1_UnprocessableListedExactly ==
    /\ (pc # "idle" /\ \E i \in 1..Len(entryPoints) : DefinesNone(entryPoints[i]))
          => /\ pc = "failed"
             /\ error.kind = "UnprocessableEntryPoints"
    /\ error.kind = "UnprocessableEntryPoints"
          => /\ error.paths = SelectSeq(entryPoints, DefinesNone)
             /\ error.paths # <<>>
             /\ error.tried = options.propertiesToConsider

\* A processable entry point comes first and two unprocessable ones follow:
\* both are listed.
C1_Witness ==
    /\ error.kind = "UnprocessableEntryPoints"
    /\ Len(entryPoints) = 3
    /\ ~DefinesNone(entryPoints[1])
    /\ error.paths = <<entryPoints[2], entryPoints[3]>>

(***************************************************************************)
(* C2 as stated: when some entry points are unprocessable, the usable ones *)
(* are still compiled and marked processed in that run.                    *)
(***************************************************************************)
C2_UsableStillCompiled ==
    (pc = "failed" /\ error.kind = "UnprocessableEntryPoints")
       => \A i \in 1..Len(entryPoints) :
             ~DefinesNone(entryPoints[i])
                => /\ \E f \in writtenFiles : f[1] = entryPoints[i]
                   /\ processed_by_ivy_ngcc[entryPoints[i]] \cap ConsideredProperties # {}

(***************************************************************************)
(* C2, amended.  When some entry points are unprocessable the run fails    *)
(* with the aggregate error at the end of the analysis: no task is         *)
(* planned, nothing is compiled and no package.json is modified, for the   *)
(* usable entry points as for the others.                                  *)
(***************************************************************************)
C2_NothingCompiledWhenUnprocessable ==
    (pc # "idle" /\ \E i \in 1..Len(entryPoints) : DefinesNone(entryPoints[i]))
       => /\ error.kind = "UnprocessableEntryPoints"
          /\ error.paths = SelectSeq(entryPoints, DefinesNone)
          /\ planned = <<>>
          /\ taskQueue = NoQueue
          /\ writtenFiles = {}
          /\ processed_by_ivy_ngcc = markersAtStart

\* The run failed on unprocessable entry points and left a usable, not yet
\* processed entry point untouched.
C2_Witness ==
    /\ pc = "failed"
    /\ error.kind = "UnprocessableEntryPoints"
    /\ \E i \in 1..Len(entryPoints) :
          /\ ~DefinesNone(entryPoints[i])
          /\ processed_by_ivy_ngcc[entryPoints[i]] = {}

(***************************************************************************)
(* C3.  In a single-process run, when the compile step of the k-th task    *)
(* fails, execute() ends with that error: task k has been handed out but   *)
(* is neither marked completed nor marked processed, no later task has     *)
(* been fetched, and what tasks 1..k-1 marked and wrote is still there.    *)
(***************************************************************************)
C3_CompileFailureAborts ==
    (SingleProcess /\ pc = "failed" /\ error.kind = "CompileError")
       => \E k \in 1..Len(planned) :
             /\ history[planned[k]] = [handedOut |-> 1, completed |-> 0, outcome |-> "none"]
             /\ taskQueue.inProgressTasks = {planned[k]}
             /\ Marks(planned[k]) \cap processed_by_ivy_ngcc[planned[k].entryPoint] = {}
             /\ \A j \in (k + 1)..Len(planned) :
                   /\ history[planned[j]] = NoHistory
                   /\ planned[j] \in Range(taskQueue.tasks)
             /\ \A j \in 1..(k - 1) :
                   /\ history[planned[j]].handedOut = 1
                   /\ history[planned[j]].completed = 1
                   /\ history[planned[j]].outcome \in {"Processed", "AlreadyProcessed"}
                   /\ history[planned[j]].outcome = "Processed"
                         => /\ Marks(planned[j])
                                  \subseteq processed_by_ivy_ngcc[planned[j].entryPoint]
                            /\ BundleOf(planned[j]) \in writtenFiles
             /\ \A p \in Packages : markersAtStart[p] \subseteq processed_by_ivy_ngcc[p]

\* The second (or a later) task failed after a task had been compiled, with
\* tasks still waiting.
C3_Witness ==
    /\ SingleProcess
    /\ pc = "failed"
    /\ error.kind = "CompileError"
    /\ \E k \in 2..(Len(planned) - 1) :
          /\ history[planned[k]].handedOut = 1
          /\ history[planned[k]].completed = 0
          /\ history[planned[k - 1]].outcome = "Processed"

\* The supported properties of the entry point that point at the bundle
\* of `prop`.
SamePath(e, prop) ==
    {q \in SupportedProperties :
        Get(PackageJsonFormats[e], q) = Get(PackageJsonFormats[e], prop)}

\* The tasks planned for an entry point.
TasksOf(e) == {t \in Range(planned) : t.entryPoint = e}

(***************************************************************************)
(* C4.  A task that was processed has marked every supported property of   *)
(* its entry point that points at the same bundle, whether the run         *)
(* considered that property or not; and a run that asks for one property   *)
(* only, which an entry point already bears a marker for, writes no file   *)
(* of that entry point and ends its task (if one is planned) with the      *)
(* outcome AlreadyProcessed, which is logged as a skip.                    *)
(***************************************************************************)
C4_AliasesMarkedAndSkipped ==
    /\ \A t \in Range(planned) :
          history[t].outcome = "Processed"
             => SamePath(t.entryPoint, t.formatProperty)
                   \subseteq processed_by_ivy_ngcc[t.entryPoint]
    /\ \A e \in Packages : \A q \in ConsideredProperties :
          (pc # "idle" /\ options.propertiesToConsider = <<q>> /\ q \in markersAtStart[e])
             => /\ \A f \in writtenFiles : f[1] # e
                /\ processed_by_ivy_ngcc[e] = markersAtStart[e]
                /\ \A t \in TasksOf(e) :
                      /\ history[t].outcome \in {"none", "AlreadyProcessed"}
                      /\ pc = "done" => history[t].outcome = "AlreadyProcessed"

\* `fesm2015` of common was compiled by an earlier run, which marked
\* `es2015` too; this run asked for `es2015` only and skipped it.
C4_Witness ==
    /\ pc = "done"
    /\ options.propertiesToConsider = <<"es2015">>
    /\ markersAtStart["common"] = {"fesm2015", "es2015", "typings"}
    /\ \E t \in TasksOf("common") :
          /\ t.formatProperty = "es2015"
          /\ history[t].outcome = "AlreadyProcessed"
    /\ \A f \in writtenFiles : f[1] # "common"

(***************************************************************************)
(* C5.  A run that repeats the options of the run that has just succeeded  *)
(* writes no bundle and changes no marker: it cannot fail, each of its     *)
(* tasks ends with the outcome AlreadyProcessed, and the markers stay what *)
(* the first run left.                                                     *)
(***************************************************************************)
C5_RerunIsNoop ==
    rerunOfSuccess
       => /\ pc \in {"processing", "done"}
          /\ error = NoError
          /\ writtenFiles = {}
          /\ processed_by_ivy_ngcc = markersAtStart
          /\ \A t \in Range(planned) :
                /\ history[t].outcome \in {"none", "AlreadyProcessed"}
                /\ pc = "done" => history[t].outcome = "AlreadyProcessed"

\* The second run has skipped its tasks, for more than one entry point.
C5_Witness ==
    /\ rerunOfSuccess
    /\ pc = "done"
    /\ Len(planned) >= 3
    /\ \E t, u \in Range(planned) : t.entryPoint # u.entryPoint
    /\ \A t \in Range(planned) : history[t].outcome = "AlreadyProcessed"

\* Every entry point of the tree bore, when the run started, a marker for
\* every property the run asks for.
AllRequestedMarked ==
    /\ pc # "idle"
    /\ ConsideredProperties # {}
    /\ \A e \in Range(DirectoryWalkerEntryPointFinder.entryPoints) \cup
                (IF options.targetEntryPointPath = NoTarget
                 THEN {} ELSE {options.targetEntryPointPath}) :
          ConsideredProperties \subseteq markersAtStart[e]

(***************************************************************************)
(* C6 as stated: the analysis of metadata that bears markers for all the   *)
(* requested properties yields no task.                                    *)
(***************************************************************************)
C6_NoTaskWhenAllMarked ==
    AllRequestedMarked => planned = <<>>

(***************************************************************************)
(* C6, amended.  Against metadata that bears markers for all the requested *)
(* properties the analysis yields no task only when a target entry point   *)
(* is given (the target is found processed and the analysis returns        *)
(* early).  Without a target the planner does not read the markers of the  *)
(* format properties: it plans a task for every entry point, and it is the *)
(* compile step that skips each with the outcome AlreadyProcessed; no      *)
(* bundle is written and no marker changes.                                *)
(***************************************************************************)
C6_MarkedMetadataPlansSkippedTasks ==
    AllRequestedMarked
       => /\ error = NoError
          /\ options.targetEntryPointPath # NoTarget => planned = <<>>
          /\ options.targetEntryPointPath = NoTarget
                => \A i \in 1..Len(entryPoints) : TasksOf(entryPoints[i]) # {}
          /\ \A t \in Range(planned) :
                history[t].outcome \in {"none", "AlreadyProcessed"}
          /\ writtenFiles = {}
          /\ processed_by_ivy_ngcc = markersAtStart

\* Everything was marked, no target was given: the tasks were planned all
\* the same, and skipped.
C6_Witness ==
    /\ AllRequestedMarked
    /\ options.targetEntryPointPath = NoTarget
    /\ pc = "done"
    /\ Len(planned) >= Len(entryPoints)
    /\ Len(entryPoints) = 3
    /\ \A t \in Range(planned) : history[t].outcome = "AlreadyProcessed"

\* The first of the considered properties that the entry point defines.
FirstDefined(e) ==
    LET ptc     == options.propertiesToConsider
        defined == {i \in 1..Len(ptc) : /\ ptc[i] \in SupportedProperties
                                        /\ isString(Get(PackageJsonFormats[e], ptc[i]))}
    IN  ptc[CHOOSE i \in defined : \A j \in defined : i <= j]

(***************************************************************************)
(* C7.  With compileAllFormats false at most one task is planned for an    *)
(* entry point, and it is the task of the first considered property that   *)
(* the package.json defines; when such a run succeeds from metadata        *)
(* without markers, the marker keys of each entry point it processed are   *)
(* exactly that property, the properties with the same bundle path and     *)
(* 'typings', and nothing else.                                            *)
(***************************************************************************)
C7_StopAtFirstFormat ==
    (pc # "idle" /\ ~options.compileAllFormats)
       => /\ \A t, u \in Range(planned) : t.entryPoint = u.entryPoint => t = u
          /\ \A t \in Range(planned) :
                /\ t.formatProperty = FirstDefined(t.entryPoint)
                /\ t.processDts = ("typings" \notin markersAtStart[t.entryPoint])
          /\ (pc = "done" /\ \A p \in Packages : markersAtStart[p] = {})
                => \A t \in Range(planned) :
                      processed_by_ivy_ngcc[t.entryPoint] =
                          SamePath(t.entryPoint, FirstDefined(t.entryPoint))
                             \cup {"typings"}

\* <<"missing", "main", "es2015">>: common stops at `main`, core at
\* `es2015` (which marks `fesm2015` too); `es2015` of common stays unmarked.
C7_Witness ==
    /\ pc = "done"
    /\ ~options.compileAllFormats
    /\ options.propertiesToConsider = <<"missing", "main", "es2015">>
    /\ Len(planned) = 3
    /\ processed_by_ivy_ngcc["common"] = {"main", "typings"}
    /\ processed_by_ivy_ngcc["core"] = {"es2015", "fesm2015", "typings"}

\* The place of an entry point in the list the analysis got.
Pos(e) == CHOOSE i \in 1..Len(entryPoints) : entryPoints[i] = e

(***************************************************************************)
(* C8.  In a single-process run (serial queue) the task list follows the   *)
(* entry-point order, which is topological, with the tasks of one entry    *)
(* point next to each other, and the loop takes the tasks in list order,   *)
(* each completed before the next is fetched: so when a task of A has been *)
(* fetched, every task of every entry point A depends on has been compiled *)
(* and marked completed.                                                   *)
(***************************************************************************)
C8_SerialDependencyOrder ==
    (pc # "idle" /\ SingleProcess)
       => /\ taskQueue.kind \in {"SerialTaskQueue", "none"}
          /\ \A i, j \in 1..Len(planned) :
                /\ i < j => Pos(planned[i].entryPoint) <= Pos(planned[j].entryPoint)
                /\ planned[i].entryPoint \in dependenciesOf(planned[j].entryPoint) => i < j
                /\ (i < j /\ history[planned[j]].handedOut > 0)
                      => /\ history[planned[i]].handedOut = 1
                         /\ history[planned[i]].completed = 1
                         /\ history[planned[i]].outcome # "none"
          /\ \A a, b \in Range(planned) :
                (b.entryPoint \in dependenciesOf(a.entryPoint) /\ history[a].handedOut > 0)
                   => history[b].completed = 1

\* core has several tasks, all completed; a task of common, which depends
\* on core, has been compiled; local is still waiting.
C8_Witness ==
    /\ SingleProcess
    /\ pc = "processing"
    /\ Cardinality(TasksOf("core")) >= 2
    /\ \A t \in TasksOf("core") : history[t].completed = 1
    /\ \E t \in TasksOf("common") : history[t].completed = 1
    /\ \E t \in TasksOf("local") : history[t].handedOut = 0

(***************************************************************************)
(* C9.  Whatever the interleaving of the workers, a task the parallel      *)
(* queue has handed out belongs to an entry point none of whose direct or  *)
(* transitive dependencies has a task that is not marked completed.        *)
(***************************************************************************)
C9_ParallelRespectsDependencies ==
    taskQueue.kind = "ParallelTaskQueue"
       => \A a, b \in Range(planned) :
             (history[a].handedOut > 0 /\ b.entryPoint \in dependenciesOf(a.entryPoint))
                => /\ history[b].completed = 1
                   /\ b \notin Range(taskQueue.tasks) \cup taskQueue.inProgressTasks

\* Two workers are compiling tasks of common and local at the same time,
\* after the tasks of core, on which both depend, were completed.
C9_Witness ==
    /\ taskQueue.kind = "ParallelTaskQueue"
    /\ pc = "processing"
    /\ \E v, w \in DOMAIN workers :
          /\ workers[v].state = "busy" /\ workers[v].task.entryPoint = "common"
          /\ workers[w].state = "busy" /\ workers[w].task.entryPoint = "local"
    /\ TasksOf("core") # {}
    /\ \A t \in TasksOf("core") : history[t].completed = 1

(***************************************************************************)
(* C10.  Neither queue returns a task twice: every task of the run has     *)
(* been handed out at most once, and a task that has been handed out, in   *)
(* flight or completed, is no longer in the list getNextTask() picks from. *)
(***************************************************************************)
C10_NoTaskHandedOutTwice ==
    pc # "idle"
       => /\ \A i, j \in 1..Len(planned) : planned[i] = planned[j] => i = j
          /\ \A t \in Range(planned) :
                /\ history[t].handedOut <= 1
                /\ history[t].completed <= history[t].handedOut
                /\ history[t].handedOut = 1 => t \notin Range(taskQueue.tasks)
                /\ (history[t].handedOut = 1 /\ history[t].completed = 0)
                      <=> t \in taskQueue.inProgressTasks

\* The parallel queue with a completed task, two tasks in flight and a task
\* not handed out yet.
C10_Witness ==
    /\ taskQueue.kind = "ParallelTaskQueue"
    /\ Cardinality(taskQueue.inProgressTasks) = 2
    /\ taskQueue.tasks # <<>>
    /\ \E t \in Range(planned) : history[t].completed = 1

(***************************************************************************)
(* C11.  For the serial and for the parallel queue, allTasksCompleted holds *)
(* exactly when every task the run planned has been marked completed; a    *)
(* task that was handed out and is not marked completed keeps it false.    *)
(***************************************************************************)
C11_AllTasksCompletedIffAllMarked ==
    taskQueue.kind \in {"SerialTaskQueue", "ParallelTaskQueue"}
       => /\ allTasksCompleted(taskQueue)
                <=> \A t \in Range(planned) : history[t].completed = 1
          /\ (\E t \in Range(planned) :
                 history[t].handedOut = 1 /\ history[t].completed = 0)
                => ~allTasksCompleted(taskQueue)
          /\ pc = "done" => allTasksCompleted(taskQueue)

\* Every task has been handed out, so the list of the queue is empty, and
\* one of them is still in flight.
C11_Witness ==
    /\ taskQueue.kind \in {"SerialTaskQueue", "ParallelTaskQueue"}
    /\ Len(planned) >= 2
    /\ taskQueue.tasks = <<>>
    /\ \E t \in Range(planned) : history[t].handedOut = 1 /\ history[t].completed = 0
    /\ \E t \in Range(planned) : history[t].completed = 1
    /\ ~allTasksCompleted(taskQueue)

\* The error a synchronous run with the same options would have thrown from
\* the analysis.
SyncAnalysisError ==
    analyzeEntryPoints(markersAtStart, [options EXCEPT !.async = FALSE]).error

(***************************************************************************)
(* C12.  With async true mainNgcc() answers with a promise and never       *)
(* throws: an error of the analysis or of a compile step rejects the       *)
(* promise, with the error the synchronous mode throws.  With async false  *)
(* the error is thrown to the caller.                                      *)
(***************************************************************************)
C12_AsyncRejectsSyncThrows ==
    /\ (pc # "idle" /\ options.async)
          => /\ completion \in {"running", "pending", "resolved", "rejected"}
             /\ (pc = "failed") <=> (completion = "rejected")
             /\ (pc = "done") <=> (completion = "resolved")
    /\ (pc # "idle" /\ ~options.async)
          => /\ completion \in {"running", "returned", "thrown"}
             /\ (pc = "failed") <=> (completion = "thrown")
             /\ (pc = "done") <=> (completion = "returned")
    /\ pc = "failed"
          => /\ error # NoError
             /\ taskQueue = NoQueue => error = SyncAnalysisError
             /\ taskQueue # NoQueue
                   => /\ error.kind \in {"CompileError", "InvariantViolated"}
                      /\ \E t \in taskQueue.inProgressTasks :
                            error.paths = <<t.entryPoint>>

\* An asynchronous run on one CPU (no cluster) whose second compile step
\* failed: the promise is rejected.
C12_Witness ==
    /\ options.async
    /\ executor.kind = "AsyncSingleProcessExecutor"
    /\ completion = "rejected"
    /\ error.kind = "CompileError"
    /\ \E t \in Range(planned) : history[t].outcome = "Processed"

\* The run was given a target (one of the packages of the tree).
Targeted == pc # "idle" /\ options.targetEntryPointPath # NoTarget

\* What the early check of getTargetedEntryPoints() answered for the target.
TargetFoundProcessed ==
    hasProcessedTargetEntryPoint(markersAtStart, options.targetEntryPointPath,
                                 ensureSupportedProperties(options.propertiesToConsider),
                                 options.compileAllFormats)

\* The target has a dependency that cannot be resolved.
TargetHasMissingDependency ==
    /\ Targeted
    /\ ConsideredProperties # {}
    /\ MissingDependencies[options.targetEntryPointPath] # {}

WholeTree ==
    pc # "idle" /\ options.targetEntryPointPath = NoTarget /\ ConsideredProperties # {}

\* The entry points of the tree with a dependency that cannot be resolved.
InvalidOfTree ==
    {e \in CompiledByAngular \ IgnoredByConfig : MissingDependencies[e] # {}}

(***************************************************************************)
(* C14.  In a run over the whole tree an entry point with a dependency     *)
(* that cannot be resolved is handed to logInvalidEntryPoints() with its   *)
(* missing dependencies; it gets no task and no marker, and the run does   *)
(* not fail on it: every valid entry point is analysed, gets its tasks     *)
(* and, when the run succeeds, is marked.                                  *)
(***************************************************************************)
C14_InvalidEntryPointIsLeftOut ==
    /\ \A e \in InvalidOfTree : processed_by_ivy_ngcc[e] = {}
    /\ WholeTree
          => /\ {i.entryPoint : i \in Range(invalidEntryPoints)} = InvalidOfTree
             /\ \A i \in Range(invalidEntryPoints) :
                   /\ i.missingDependencies = MissingDependencies[i.entryPoint]
                   /\ i.entryPoint \notin Range(entryPoints)
                   /\ TasksOf(i.entryPoint) = {}
                   /\ \A f \in writtenFiles : f[1] # i.entryPoint
             /\ error.kind # "MissingDependencies"
             /\ Range(entryPoints) = (CompiledByAngular \ IgnoredByConfig) \ InvalidOfTree
             /\ error = NoError
                   => \A e \in Range(entryPoints) : TasksOf(e) # {}
             /\ pc = "done"
                   => \A e \in Range(entryPoints) :
                         /\ processed_by_ivy_ngcc[e] \cap ConsideredProperties # {}
                         /\ \A t \in TasksOf(e) : history[t].completed = 1

\* The run over the tree is done: invalid-package was logged and left out,
\* the three valid entry points were compiled.
C14_Witness ==
    /\ WholeTree
    /\ pc = "done"
    /\ invalidEntryPoints =
          <<[entryPoint |-> "invalid", missingDependencies |-> {"@angular/missing"}]>>
    /\ Len(entryPoints) = 3
    /\ \A e \in Range(entryPoints) : \E t \in TasksOf(e) : history[t].outcome = "Processed"
    /\ processed_by_ivy_ngcc["invalid"] = {}

\* The target and the entry points it depends on, directly or not.
TargetClosure ==
    {options.targetEntryPointPath} \cup dependenciesOf(options.targetEntryPointPath)

TargetHoldsNoEntryPoint ==
    /\ Targeted
    /\ ConsideredProperties # {}
    /\ ~TargetFoundProcessed
    /\ LET info == TargetedEntryPointFinder(options.targetEntryPointPath)
       IN  /\ info.entryPoints = <<>>
           /\ \A i \in Range(info.invalidEntryPoints) :
                 i.entryPoint # options.targetEntryPointPath

(***************************************************************************)
(* C16.  A targeted run whose target is not found processed, is not        *)
(* invalid and holds no entry point (it was not compiled by Angular) marks *)
(* every supported format property in the package.json of the target, and  *)
(* not 'typings'; it plans no task, marks no other package, writes no file *)
(* and ends without an error.                                              *)
(***************************************************************************)
C16_NonAngularTargetMarked ==
    TargetHoldsNoEntryPoint
       => /\ processed_by_ivy_ngcc[options.targetEntryPointPath] =
                markersAtStart[options.targetEntryPointPath] \cup SupportedProperties
          /\ "typings" \notin processed_by_ivy_ngcc[options.targetEntryPointPath]
          /\ \A p \in Packages \ {options.targetEntryPointPath} :
                processed_by_ivy_ngcc[p] = markersAtStart[p]
          /\ entryPoints = <<>>
          /\ planned = <<>>
          /\ writtenFiles = {}
          /\ error = NoError
          /\ pc \in {"processing", "done"}

\* test-package was the target: all seven properties are marked, though it
\* defines `es2015` only, and common and core, which it imports, are not.
C16_Witness ==
    /\ TargetHoldsNoEntryPoint
    /\ options.targetEntryPointPath = "testpkg"
    /\ pc = "done"
    /\ markersAtStart["testpkg"] = {}
    /\ processed_by_ivy_ngcc["testpkg"] =
          {"fesm2015", "fesm5", "es2015", "esm2015", "esm5", "main", "module"}
    /\ processed_by_ivy_ngcc["common"] = {}
    /\ processed_by_ivy_ngcc["core"] = {}

\* The considered properties that the target's package.json defines.
DefinedByTarget ==
    {q \in ConsideredProperties :
        ~isFalsy(Get(PackageJsonFormats[options.targetEntryPointPath], q))}

\* The target was treated as processed already: the debug message, no entry
\* point, no task, nothing touched, no error.
TargetSkipped ==
    /\ AlreadyProcessedMessage \in debugLog
    /\ entryPoints = <<>>
    /\ planned = <<>>
    /\ error = NoError
    /\ writtenFiles = {}
    /\ processed_by_ivy_ngcc = markersAtStart

(***************************************************************************)
(* C17.  In a targeted run with compileAllFormats true the target is       *)
(* treated as processed already (no entry point, no task, the debug        *)
(* message) exactly when every considered property that its package.json   *)
(* defines bears a marker; one defined property without a marker makes the *)
(* run go on to the finder and, for a target compiled by Angular, to the   *)
(* tasks of the target.                                                    *)
(***************************************************************************)
C17_SkipTargetWhenAllProcessed ==
    (Targeted /\ ConsideredProperties # {} /\ options.compileAllFormats)
       => LET allMarked ==
                  DefinedByTarget \subseteq markersAtStart[options.targetEntryPointPath]
          IN  /\ allMarked <=> (AlreadyProcessedMessage \in debugLog)
              /\ allMarked => TargetSkipped
              /\ (~allMarked /\ error = NoError
                     /\ getEntryPointInfo(options.targetEntryPointPath))
                    => /\ TasksOf(options.targetEntryPointPath) # {}
                       /\ \E t \in TasksOf(options.targetEntryPointPath) :
                             t.formatProperty
                                \notin markersAtStart[options.targetEntryPointPath]

\* Every considered property that common defines was marked by an earlier
\* run: the run targeted at common is skipped.
C17_Witness ==
    /\ Targeted
    /\ options.compileAllFormats
    /\ options.targetEntryPointPath = "common"
    /\ Cardinality(DefinedByTarget) >= 2
    /\ DefinedByTarget \subseteq markersAtStart["common"]
    /\ TargetSkipped
    /\ pc = "done"

IndexOf(prop) ==
    CHOOSE i \in 1..Len(options.propertiesToConsider) :
        options.propertiesToConsider[i] = prop

(***************************************************************************)
(* C19.  The properties to consider that are not supported are dropped,    *)
(* and the others keep their order.  When none is left the run fails with  *)
(* the 'No supported format property to consider' error, which quotes the  *)
(* list as given, before an entry point is looked for, compiled or marked; *)
(* the error is raised in no other case.                                   *)
(***************************************************************************)
C19_UnsupportedPropertiesDropped ==
    pc # "idle"
       => LET kept == ensureSupportedProperties(options.propertiesToConsider)
          IN  /\ Range(kept) = ConsideredProperties
              /\ \A i, j \in 1..Len(kept) :
                    i < j => IndexOf(kept[i]) < IndexOf(kept[j])
              /\ \A t \in Range(planned) : t.formatProperty \in ConsideredProperties
              /\ (ConsideredProperties = {}) <=> (error.kind = "NoSupportedProperty")
              /\ ConsideredProperties = {}
                    => /\ pc = "failed"
                       /\ error.tried = options.propertiesToConsider
                       /\ entryPoints = <<>>
                       /\ invalidEntryPoints = <<>>
                       /\ debugLog = {}
                       /\ planned = <<>>
                       /\ taskQueue = NoQueue
                       /\ writtenFiles = {}
                       /\ processed_by_ivy_ngcc = markersAtStart

\* Neither `es1337` nor `fesm42` is supported: the run fails, and
\* test-package, its target, is not even marked as a non-Angular package.
C19_Witness ==
    /\ pc = "failed"
    /\ error.kind = "NoSupportedProperty"
    /\ error.tried = <<"es1337", "fesm42">>
    /\ options.targetEntryPointPath = "testpkg"
    /\ processed_by_ivy_ngcc["testpkg"] = {}

\* The keys a run with compileAllFormats true is to mark for an entry
\* point: the considered properties it defines, the supported properties
\* with the same bundle path, and 'typings'.
ExpectedMarkers(e) ==
    UNION {SamePath(e, q) :
              q \in {c \in ConsideredProperties :
                        isString(Get(PackageJsonFormats[e], c))}}
        \cup {"typings"}

(***************************************************************************)
(* C20.  In a run over the whole tree with compileAllFormats true that     *)
(* started from metadata without markers, no key is ever marked but the    *)
(* considered properties the entry point defines, the supported            *)
(* properties with the same bundle path as one of them, and 'typings';     *)
(* when the run has succeeded the marked keys of every processed entry     *)
(* point are exactly these.                                                *)
(***************************************************************************)
C20_MarkedKeysExact ==
    (WholeTree /\ options.compileAllFormats /\ \A p \in Packages : markersAtStart[p] = {})
       => /\ \A e \in Range(entryPoints) :
                processed_by_ivy_ngcc[e] \subseteq ExpectedMarkers(e)
          /\ \A p \in Packages \ Range(entryPoints) : processed_by_ivy_ngcc[p] = {}
          /\ pc = "done"
                => \A e \in Range(entryPoints) :
                      processed_by_ivy_ngcc[e] = ExpectedMarkers(e)

\* <<"missing", "main", "es2015">>: common ends with `main`, `es2015` and its
\* alias `fesm2015`; core with `es2015` and `fesm2015`, its `fesm5`,
\* `module` and `esm5` unmarked -- and 'typings' for both.
C20_Witness ==
    /\ WholeTree
    /\ options.compileAllFormats
    /\ options.propertiesToConsider = <<"missing", "main", "es2015">>
    /\ \A p \in Packages : markersAtStart[p] = {}
    /\ pc = "done"
    /\ processed_by_ivy_ngcc["common"] = {"main", "es2015", "fesm2015", "typings"}
    /\ processed_by_ivy_ngcc["core"] = {"es2015", "fesm2015", "typings"}
    /\ processed_by_ivy_ngcc["local"] = {"es2015", "typings"}

(***************************************************************************)
(* C21.  The cluster executor is used exactly when async is true and more  *)
(* than one CPU core is reported (with min(8, cores - 1) workers, the      *)
(* parallel queue and the cluster updater).  With async true and a single  *)
(* core the asynchronous single-process executor is used, and the caller   *)
(* still gets a promise; with async false the synchronous single-process   *)
(* executor is used whatever the number of cores.                          *)
(***************************************************************************)
C21_ExecutorChoice ==
    pc # "idle"
       => /\ (executor.kind = "ClusterExecutor") <=> (options.async /\ cpus > 1)
          /\ executor.kind = "ClusterExecutor"
                => /\ executor.workerCount = Min(MaxWorkers, cpus - 1)
                   /\ Len(workers) = executor.workerCount
                   /\ Len(workers) >= 1
                   /\ taskQueue.kind \in {"ParallelTaskQueue", "none"}
                   /\ pkgJsonUpdater = "ClusterPackageJsonUpdater"
          /\ (options.async /\ cpus < 2)
                => /\ executor.kind = "AsyncSingleProcessExecutor"
                   /\ pc \in {"done", "failed"} => completion \in {"resolved", "rejected"}
          /\ ~options.async
                => /\ executor.kind = "SingleProcessExecutor"
                   /\ pc \in {"done", "failed"} => completion \in {"returned", "thrown"}
          /\ executor.kind # "ClusterExecutor"
                => /\ workers = <<>>
                   /\ taskQueue.kind \in {"SerialTaskQueue", "none"}
                   /\ pkgJsonUpdater = "DirectPackageJsonUpdater"

\* An asynchronous run on a single core: it was done by the asynchronous
\* single-process executor, and the promise is resolved.
C21_Witness ==
    /\ options.async
    /\ cpus = 1
    /\ executor.kind = "AsyncSingleProcessExecutor"
    /\ pc = "done"
    /\ completion = "resolved"
    /\ \E t \in Range(planned) : history[t].outcome = "Processed"

\* The marker keys written by the tasks of an entry point that have been
\* reported to the updater as processed.
WrittenBy(e) ==
    UNION {Marks(t) : t \in {u \in TasksOf(e) : history[u].outcome = "Processed"}}

(***************************************************************************)
(* C22.  A run has one updater (the cluster updater, which forwards to the *)
(* master, exactly when the run is parallel), and each write it applies    *)
(* is a read-merge-write of the whole package.json: whatever the order in  *)
(* which the workers report, the package.json of an entry point holds the  *)
(* markers it had when the run started and the markers of every task that  *)
(* has been applied, and nothing else; no marker is ever lost.             *)
(***************************************************************************)
C22_NoLostUpdate ==
    pc # "idle"
       => /\ pkgJsonUpdater = getPackageJsonUpdater(inParallelOf(options.async, cpus))
          /\ \A t \in Range(planned) :
                history[t].outcome = "Processed"
                   => Marks(t) \subseteq processed_by_ivy_ngcc[t.entryPoint]
          /\ \A e \in Range(entryPoints) :
                processed_by_ivy_ngcc[e] = markersAtStart[e] \cup WrittenBy(e)
          /\ \A p \in Packages : markersAtStart[p] \subseteq processed_by_ivy_ngcc[p]
          /\ (pc = "done" /\ \A p \in Packages : markersAtStart[p] = {})
                => \A t \in Range(planned) :
                      Marks(t) \subseteq processed_by_ivy_ngcc[t.entryPoint]

\* Two workers have compiled different properties of core and both reports
\* are waiting for the master, which has applied the write of a third task
\* of core already.
C22_Witness ==
    /\ executor.kind = "ClusterExecutor"
    /\ pkgJsonUpdater = "ClusterPackageJsonUpdater"
    /\ \E v, w \in DOMAIN workers :
          /\ v # w
          /\ workers[v].state = "reported" /\ workers[v].outcome = "Processed"
          /\ workers[w].state = "reported" /\ workers[w].outcome = "Processed"
          /\ workers[v].task.entryPoint = "core"
          /\ workers[w].task.entryPoint = "core"
          /\ workers[v].task.formatProperty # workers[w].task.formatProperty
    /\ \E t \in TasksOf("core") :
          /\ history[t].outcome = "Processed"
          /\ Marks(t) \subseteq processed_by_ivy_ngcc["core"]

SubEntryPointsOf(e) == {d \in Range(SubDirectories[e]) : getEntryPointInfo(d)}

C25_CliExitCode ==
    /\ (argv # NoArgv /\ argv.formats # <<>>)
          => /\ exitCode = <<1>>
             /\ pc = "idle"
             /\ completion = "none"
             /\ options = DefaultOptions
             /\ planned = <<>>
             /\ writtenFiles = {}
             /\ processed_by_ivy_ngcc = markersAtStart
    /\ (argv # NoArgv /\ argv.formats = <<>>)
          => /\ pc # "idle"
             /\ options = [targetEntryPointPath |-> argv.target,
                           propertiesToConsider |-> argv.properties,
                           compileAllFormats    |-> ~argv.firstOnly,
                           async                |-> TRUE]
             /\ executor.kind # "SingleProcessExecutor"
             /\ completion \in {"running", "pending", "resolved", "rejected"}
             /\ (exitCode = <<0>>) <=> (completion = "resolved")
             /\ (exitCode = <<1>>) <=> (completion = "rejected")
             /\ (exitCode = <<0>>) <=> (pc = "done")
             /\ (exitCode = <<1>>) <=> (pc = "failed")
    /\ argv = NoArgv => exitCode = NoExitCode

\* The command line was run without -f; a compile step failed after another
\* had succeeded, the promise is rejected and the exit code is 1.
C25_Witness ==
    /\ argv # NoArgv
    /\ argv.formats = <<>>
    /\ completion = "rejected"
    /\ exitCode = <<1>>
    /\ error.kind = "CompileError"
    /\ \E t \in Range(planned) : history[t].outcome = "Processed"

\* The analysis of the run came to its end and returned the task queue.
Analysed == pc # "idle" /\ ~(pc = "failed" /\ taskQueue = NoQueue)

\* The format properties of the tasks planned for an entry point, in the
\* order of the task list.
PlannedProperties(e) ==
    LET ts == SelectSeq(planned, LAMBDA t : t.entryPoint = e)
    IN  [k \in 1..Len(ts) |-> ts[k].formatProperty]

\* The supported properties to consider, in the order given, that the
\* package.json defines as a string and whose format path is not the path of
\* a property that comes earlier in the list.
DistinctPathProperties(e) ==
    LET ptc  == options.propertiesToConsider
        json == PackageJsonFormats[e]
        keep == SelectSeq([i \in 1..Len(ptc) |-> i],
                    LAMBDA i : /\ ptc[i] \in SupportedProperties
                               /\ isString(Get(json, ptc[i]))
                               /\ \A j \in 1..(i - 1) :
                                     Get(json, ptc[j]) # Get(json, ptc[i]))
    IN  [k \in 1..Len(keep) |-> ptc[keep[k]]]

(***************************************************************************)
(* C26 as stated: the properties planned for an entry point are all the    *)
(* considered properties, in order, that are defined as a string and whose *)
(* format path differs from the path of every earlier one.                 *)
(***************************************************************************)
C26_AllDistinctPathsPlanned ==
    Analysed
       => \A e \in Range(entryPoints) : PlannedProperties(e) = DistinctPathProperties(e)

(***************************************************************************)
(* C26, amended.  With compileAllFormats true the properties planned for   *)
(* an entry point are the considered properties, in order, that are        *)
(* defined as a string and whose format path differs from the path of      *)
(* every earlier one; with compileAllFormats false only the first of them  *)
(* is planned.  Either way no two tasks of an entry point have the same    *)
(* bundle path, and every entry point that was analysed has a task.        *)
(***************************************************************************)
C26_PlannedProperties ==
    Analysed
       => /\ \A e \in Range(entryPoints) :
                /\ DistinctPathProperties(e) # <<>>
                /\ PlannedProperties(e) =
                      IF options.compileAllFormats
                      THEN DistinctPathProperties(e)
                      ELSE <<Head(DistinctPathProperties(e))>>
          /\ \A t, u \in Range(planned) :
                (t.entryPoint = u.entryPoint /\ t # u) => BundleOf(t) # BundleOf(u)
          /\ \A t \in Range(planned) : isString(BundleOf(t)[2])

\* All the supported properties, all formats: core gets three tasks for its
\* five properties (`es2015` and `module` point at bundles met before), and
\* local two, as its `esm5` is not a string.
C26_Witness ==
    /\ Analysed
    /\ options.compileAllFormats
    /\ options.propertiesToConsider = SUPPORTED_FORMAT_PROPERTIES
    /\ PlannedProperties("core") = <<"fesm2015", "fesm5", "esm5">>
    /\ PlannedProperties("common") = <<"fesm2015", "main">>
    /\ PlannedProperties("local") = <<"es2015", "esm2015">>
    /\ pc = "processing"
    /\ \E t \in Range(planned) : history[t].outcome = "Processed"

\* The tasks planned for an entry point, in the order of the task list.
TaskListOf(e) == SelectSeq(planned, LAMBDA t : t.entryPoint = e)

(***************************************************************************)
(* C27: among the tasks planned for one entry point in one run at most one *)
(* has processDts set; it is the first task of the entry point, and it is  *)
(* set if and only if 'typings' bore no marker in the entry point's        *)
(* package.json when the run was analysed.                                 *)
(***************************************************************************)
C27_TypingsWithFirstTaskOnly ==
    Analysed
       => \A e \in Range(entryPoints) :
             /\ Cardinality({k \in 1..Len(TaskListOf(e)) : TaskListOf(e)[k].processDts}) <= 1
             /\ \A k \in 1..Len(TaskListOf(e)) :
                   TaskListOf(e)[k].processDts
                      <=> (k = 1 /\ "typings" \notin markersAtStart[e])

\* A run that plans several tasks for two entry points: the typings of one
\* bear a marker of an earlier run, so none of its tasks carries them; the
\* typings of the other do not, so its first task carries them.
C27_Witness ==
    /\ Analysed
    /\ \E e \in Range(entryPoints) :
          /\ Len(TaskListOf(e)) >= 2
          /\ "typings" \in markersAtStart[e]
          /\ \A k \in 1..Len(TaskListOf(e)) : ~TaskListOf(e)[k].processDts
    /\ \E e \in Range(entryPoints) :
          /\ Len(TaskListOf(e)) >= 2
          /\ "typings" \notin markersAtStart[e]
          /\ TaskListOf(e)[1].processDts
          /\ ~TaskListOf(e)[2].processDts

\* execute() of a single-process executor is under way or has come to its
\* end.
InSingleProcessExecute == Analysed /\ SingleProcess /\ planned # <<>>

\* What holds of the loop of SingleProcessExecutor.execute() at every
\* moment: a task is handed out at most once and is completed before the
\* next one is fetched, the queue has a task to give while it is not
\* completed, and execute() has returned only with every task fetched,
\* compiled and completed once.
SingleProcessLoop ==
    InSingleProcessExecute
       => /\ taskQueue.kind = "SerialTaskQueue"
          /\ \A t \in Range(planned) :
                /\ history[t].handedOut <= 1
                /\ history[t].completed <= history[t].handedOut
                /\ pc # "failed" => history[t].completed = history[t].handedOut
          /\ pc # "failed" => taskQueue.inProgressTasks = {}
          /\ (pc = "processing" /\ ~allTasksCompleted(taskQueue))
                => getNextTask(taskQueue).task # NoTask
          /\ pc = "done"
                => /\ allTasksCompleted(taskQueue)
                   /\ \A t \in Range(planned) :
                         history[t].handedOut = 1 /\ history[t].completed = 1

\* The analysis is not run a second time while the loop is at work: the
\* task list and the entry points stay as analyzeEntryPoints() returned them.
AnalyzedOnce ==
    (pc = "processing" /\ SingleProcess)
       => /\ planned' = planned
          /\ entryPoints' = entryPoints
          /\ runs' = runs
          /\ \A t \in Range(planned) : history'[t].handedOut >= history[t].handedOut

(***************************************************************************)
(* C28: SingleProcessExecutor.execute() terminates for a finite task list: *)
(* it ends by returning, or by the error a compile step throws.  The       *)
(* analysis runs once, before any task is compiled; each planned task is   *)
(* fetched and compiled once and is completed before the next is fetched;  *)
(* getNextTask() does not return null while allTasksCompleted is false;    *)
(* and execute() returns only when allTasksCompleted is true.              *)
(***************************************************************************)
C28_ExecuteTerminates ==
    /\ []SingleProcessLoop
    /\ [][AnalyzedOnce]_vars
    /\ (pc = "processing" /\ SingleProcess) ~> (pc \in {"done", "failed"})

\* execute() has returned from a list of three tasks or more, each of them
\* handed out, compiled and completed once.
C28_Witness ==
    /\ InSingleProcessExecute
    /\ executor.kind = "SingleProcessExecutor"
    /\ pc = "done"
    /\ Len(planned) >= 3
    /\ allTasksCompleted(taskQueue)
    /\ \A t \in Range(planned) : history[t].handedOut = 1 /\ history[t].completed = 1

\* The asynchronous single-process executor stands between two tasks: one
\* is completed, another is still to be fetched.
AtTaskBoundary ==
    /\ Analysed
    /\ executor.kind = "AsyncSingleProcessExecutor"
    /\ pc = "processing"
    /\ \E t \in Range(planned) : history[t].completed = 1
    /\ ~allTasksCompleted(taskQueue)

(***************************************************************************)
(* C29 as stated: the asynchronous single-process executor suspends at     *)
(* each task boundary: between the completion of a task and the start of   *)
(* the next its caller holds the pending promise and can do other work.    *)
(***************************************************************************)
C29_SuspendsAtTaskBoundary ==
    AtTaskBoundary => completion = "pending"

(***************************************************************************)
(* C29, amended.  The asynchronous single-process executor performs the    *)
(* tasks one at a time and does not suspend between them: the loop runs    *)
(* inside the call of execute(), the caller is not answered while tasks    *)
(* are left, and the promise it gets at the end is settled already.        *)
(***************************************************************************)
C29_AsyncLoopRunsToTheEnd ==
    (Analysed /\ executor.kind = "AsyncSingleProcessExecutor")
       => /\ pc = "processing" => completion = "running"
          /\ pc = "done" => completion = "resolved" /\ allTasksCompleted(taskQueue)
          /\ pc = "failed" => completion = "rejected"
          /\ Cardinality(taskQueue.inProgressTasks) <= 1
          /\ \A t \in Range(planned) : history[t].handedOut <= 1

\* Between two tasks of an asynchronous single-process run the caller is
\* still inside the call.
C29_Witness ==
    /\ AtTaskBoundary
    /\ completion = "running"
    /\ taskQueue.inProgressTasks = {}
    /\ Len(taskQueue.tasks) >= 1

\* The run has a target that is an entry point compiled by Angular and
\* whose package.json defines none of the properties to consider.
TargetDefinesNone ==
    /\ Targeted
    /\ ConsideredProperties # {}
    /\ getEntryPointInfo(options.targetEntryPointPath)
    /\ DefinesNone(options.targetEntryPointPath)

(***************************************************************************)
(* C30: a targeted run whose target entry point defines none of the        *)
(* considered format properties fails with the 'Unable to process any      *)
(* formats' error, and the error names the target.                         *)
(***************************************************************************)
C30_TargetWithoutFormatsFails ==
    TargetDefinesNone
       => /\ pc = "failed"
          /\ error.kind = "UnprocessableEntryPoints"
          /\ options.targetEntryPointPath \in Range(error.paths)

\* What the run does instead: hasProcessedTargetEntryPoint() finds no
\* defined property, answers true, and the run ends well with the message
\* that the target has been processed already, no task and no marker.
C30_TargetWithoutFormatsSkipped ==
    /\ TargetDefinesNone
    /\ options.targetEntryPointPath = "common"
    /\ options.propertiesToConsider = <<"module", "fesm5", "esm5">>
    /\ pc = "done"
    /\ error = NoError
    /\ AlreadyProcessedMessage \in debugLog
    /\ planned = <<>>
    /\ processed_by_ivy_ngcc["common"] = {}

\* The format path of the task's property passes the check the compile step
\* makes before anything else (`!formatPath || !format`).
PassesCompileCheck(t) ==
    /\ ~isFalsy(Get(PackageJsonFormats[t.entryPoint], t.formatProperty))
    /\ getEntryPointFormat(t.entryPoint, t.formatProperty) # undefined

(***************************************************************************)
(* C31: every task the analysis produces has a supported format property   *)
(* whose format path passes the check of the compile step, so no compile   *)
(* step throws 'Invariant violated: No format-path or format'.             *)
(***************************************************************************)
C31_NoInvariantViolated ==
    /\ \A t \in Range(planned) :
          /\ t.formatProperty \in SupportedProperties
          /\ PassesCompileCheck(t)
    /\ error.kind # "InvariantViolated"

\* The package.json of `local` has "esm2015": "": a string, so the property
\* is planned, and falsy, so the compile step of its task throws.
C31_EmptyPathPlannedAndThrown ==
    /\ pc = "failed"
    /\ error.kind = "InvariantViolated"
    /\ error.paths = <<"local">>
    /\ \E t \in Range(planned) :
          /\ t.entryPoint = "local"
          /\ t.formatProperty = "esm2015"
          /\ t.formatProperty \in SupportedProperties
          /\ ~PassesCompileCheck(t)
          /\ history[t].handedOut = 1
          /\ history[t].completed = 0

\* The tasks of the run that have written the marker `key` of entry point e.
WritersOf(e, key) ==
    {t \in Range(planned) :
        /\ t.entryPoint = e
        /\ key \in Marks(t)
        /\ history[t].outcome = "Processed"}

\* What the plan and the bookkeeping of a run show at every moment.
MarkersPlannedOnce ==
    Analysed
       => /\ \A t, u \in Range(planned) :
                (t.entryPoint = u.entryPoint /\ t # u)
                   => Range(t.formatPropertiesToMarkAsProcessed)
                         \cap Range(u.formatPropertiesToMarkAsProcessed) = {}
          /\ \A e \in Range(entryPoints) :
                Cardinality({t \in TasksOf(e) : t.processDts}) <= 1
          /\ \A t \in Range(planned) : history[t].completed <= 1
          /\ \A e \in Range(entryPoints) : \A key \in MarkerKeys :
                Cardinality(WritersOf(e, key)) <= 1

\* The step that records a task as processed writes markers that were not
\* in the package.json before the step.
MarkersWrittenFresh ==
    \A t \in Range(planned) :
        (/\ t \in DOMAIN history /\ t \in DOMAIN history'
         /\ planned' = planned
         /\ history[t].outcome = "none"
         /\ history'[t].outcome = "Processed")
           => /\ Marks(t) \cap processed_by_ivy_ngcc[t.entryPoint] = {}
              /\ Marks(t) \subseteq processed_by_ivy_ngcc'[t.entryPoint]

(***************************************************************************)
(* C32: within one run each processed marker of a package, 'typings'       *)
(* included, is written at most once: the tasks of one entry point mark    *)
(* pairwise disjoint sets of properties, at most one of them carries the   *)
(* typings, each task is completed at most once, and the markers a task    *)
(* writes were not there before it wrote them.                             *)
(***************************************************************************)
C32_MarkerWrittenOnce ==
    /\ []MarkersPlannedOnce
    /\ [][MarkersWrittenFresh]_vars

\* A run of three tasks for core, all processed: the first wrote two
\* properties and the typings, the second two properties, the third one.
C32_Witness ==
    /\ Analysed
    /\ pc = "done"
    /\ Cardinality(TasksOf("core")) = 3
    /\ \A t \in TasksOf("core") : history[t].outcome = "Processed"
    /\ \E t \in TasksOf("core") : Cardinality(Marks(t)) = 3 /\ t.processDts
    /\ Cardinality(WritersOf("core", "typings")) = 1
    /\ Cardinality(WritersOf("core", "module")) = 1
    /\ processed_by_ivy_ngcc["core"] =
          {"fesm2015", "es2015", "fesm5", "module", "esm5", "typings"}

(***************************************************************************)
(* C33: with the serial queue and with the parallel queue alike, no task   *)
(* of an entry point that does not carry the typings is handed out before  *)
(* the task of that entry point that carries them has been handed out.     *)
(***************************************************************************)
C33_TypingsTaskStartsFirst ==
    Analysed
       => /\ taskQueue.kind \in {"SerialTaskQueue", "ParallelTaskQueue"}
          /\ \A t, u \in Range(planned) :
                (/\ t.entryPoint = u.entryPoint
                 /\ u.processDts
                 /\ ~t.processDts
                 /\ history[t].handedOut >= 1)
                   => history[u].handedOut >= 1

\* The cluster at work on two tasks of core at once: the one with the
\* typings was handed out first and is not completed yet.
C33_Witness ==
    /\ Analysed
    /\ executor.kind = "ClusterExecutor"
    /\ taskQueue.kind = "ParallelTaskQueue"
    /\ pc = "processing"
    /\ \E t, u \in TasksOf("core") :
          /\ u.processDts /\ ~t.processDts
          /\ history[u].handedOut = 1 /\ history[u].completed = 0
          /\ history[t].handedOut = 1
          /\ {t, u} \subseteq taskQueue.inProgressTasks

\* Two supported properties of a package.json that point to one bundle.
SameBundle(p, a, b) ==
    /\ isString(Get(PackageJsonFormats[p], a))
    /\ Get(PackageJsonFormats[p], a) = Get(PackageJsonFormats[p], b)

(***************************************************************************)
(* C34: from package.json files without markers, whatever runs follow      *)
(* (ended well, skipped or aborted, with any properties and any            *)
(* compileAllFormats), two supported properties of an entry point that     *)
(* point to the same bundle path are both marked or both unmarked.         *)
(***************************************************************************)
C34_AliasesMarkedTogether ==
    \A p \in Packages : \A a, b \in DOMAIN PackageJsonFormats[p] :
        (a \in SupportedProperties /\ b \in SupportedProperties /\ SameBundle(p, a, b))
           => (a \in processed_by_ivy_ngcc[p] <=> b \in processed_by_ivy_ngcc[p])

\* In the second run, asked for `es2015` alone: in core and in common
\* `fesm2015`, which was not asked for, is marked with it, while `fesm5` and
\* `module` of core are both unmarked still.
C34_Witness ==
    /\ runs = 2
    /\ pc = "done"
    /\ options.propertiesToConsider = <<"es2015">>
    /\ SameBundle("core", "es2015", "fesm2015")
    /\ SameBundle("core", "fesm5", "module")
    /\ {"es2015", "fesm2015"} \subseteq processed_by_ivy_ngcc["core"]
    /\ {"es2015", "fesm2015"} \subseteq processed_by_ivy_ngcc["common"]
    /\ {"fesm5", "module"} \cap processed_by_ivy_ngcc["core"] = {}
    /\ \E t \in TasksOf("core") : history[t].outcome = "Processed"

(***************************************************************************)
(* C35: after a run that ended well, every entry point that had a planned  *)
(* task has 'typings' marked as processed.                                 *)
(***************************************************************************)
C35_TypingsMarkedAfterSuccess ==
    (Analysed /\ pc = "done")
       => \A t \in Range(planned) : "typings" \in processed_by_ivy_ngcc[t.entryPoint]

\* What happens instead: an aborted run of the cluster left common with
\* `es2015` marked and 'typings' not; the next run plans `es2015` as the
\* first task of common, with the typings, the compile step skips the task
\* as processed already, and the run ends well with the typings of common
\* neither processed nor marked.
C35_TypingsLeftUnprocessed ==
    /\ Analysed
    /\ pc = "done"
    /\ error = NoError
    /\ "es2015" \in markersAtStart["common"]
    /\ "typings" \notin markersAtStart["common"]
    /\ \E t \in TasksOf("common") :
          /\ t.processDts
          /\ t.formatProperty = "es2015"
          /\ history[t].outcome = "AlreadyProcessed"
    /\ "typings" \notin processed_by_ivy_ngcc["common"]
    /\ <<"common", "typings">> \notin writtenFiles

\* The three components of a run are the parallel ones.
ParallelComponents ==
    /\ executor.kind = "ClusterExecutor"
    /\ pkgJsonUpdater = "ClusterPackageJsonUpdater"
    /\ taskQueue.kind \in {"ParallelTaskQueue", "none"}

\* The three components of a run are the serial ones.
SerialComponents ==
    /\ executor.kind \in {"SingleProcessExecutor", "AsyncSingleProcessExecutor"}
    /\ pkgJsonUpdater = "DirectPackageJsonUpdater"
    /\ taskQueue.kind \in {"SerialTaskQueue", "none"}

(***************************************************************************)
(* C36: within one invocation of mainNgcc() the parallel task queue, the   *)
(* cluster executor and the cluster updater are used together, exactly     *)
(* when async is asked for and there is more than one CPU; otherwise the   *)
(* serial queue, a single-process executor and the direct updater are used *)
(* together.  (The queue exists once the analysis has returned it.)        *)
(***************************************************************************)
C36_ComponentsPaired ==
    pc # "idle"
       => /\ (options.async /\ cpus > 1) => ParallelComponents
          /\ ~(options.async /\ cpus > 1) => SerialComponents
          /\ ~(taskQueue.kind = "ParallelTaskQueue" /\ SingleProcess)
          /\ ~(taskQueue.kind = "SerialTaskQueue" /\ executor.kind = "ClusterExecutor")
          /\ taskQueue.kind = "none" => pc = "failed" \/ entryPoints = <<>>

\* The second run of a process pairs the parallel components, after a first
\* run that was asked to be synchronous; its queue holds tasks in flight.
C36_Witness ==
    /\ runs = 2
    /\ pc = "processing"
    /\ options.async /\ cpus > 1
    /\ ParallelComponents
    /\ taskQueue.kind = "ParallelTaskQueue"
    /\ Cardinality(taskQueue.inProgressTasks) = 2
    /\ Len(taskQueue.tasks) >= 1

\* The run failed in the analysis: no task queue was returned.
AnalysisFailed == pc = "failed" /\ taskQueue = NoQueue

(***************************************************************************)
(* C37: when mainNgcc() fails during the analysis (no supported property   *)
(* to consider, a target with missing dependencies, or entry points that   *)
(* cannot be processed), no compile step has run and no package.json was   *)
(* changed in the run: the markers of every package are those from before  *)
(* the run.                                                                *)
(***************************************************************************)
C37_AnalysisFailureChangesNothing ==
    AnalysisFailed
       => /\ error.kind \in {"NoSupportedProperty", "MissingDependencies",
                             "UnprocessableEntryPoints"}
          /\ processed_by_ivy_ngcc = markersAtStart
          /\ writtenFiles = {}
          /\ planned = <<>>
          /\ \A w \in DOMAIN workers : workers[w] = IdleWorker

\* A second run, targeted at the entry point with a missing dependency,
\* fails in the analysis; the markers the first run wrote are all there is.
C37_Witness ==
    /\ AnalysisFailed
    /\ runs = 2
    /\ options.targetEntryPointPath = "invalid"
    /\ error.kind = "MissingDependencies"
    /\ "typings" \in markersAtStart["core"]
    /\ processed_by_ivy_ngcc = markersAtStart
    /\ processed_by_ivy_ngcc["invalid"] = {}
    /\ writtenFiles = {}

\* A step leaves every marker of every package.json in place.
MarkersKept ==
    \A p \in Packages : processed_by_ivy_ngcc[p] \subseteq processed_by_ivy_ngcc'[p]

ParallelProcessing ==
    /\ pc = "processing"
    /\ executor.kind = "ClusterExecutor"
    /\ taskQueue.kind = "ParallelTaskQueue"

\* The parallel queue is not stuck: with tasks left and none in flight it
\* has a task to give; and the run has ended well only with every task
\* handed out and completed.
ParallelQueueNotStuck ==
    /\ (ParallelProcessing /\ ~allTasksCompleted(taskQueue)
          /\ taskQueue.inProgressTasks = {})
          => getNextTask(taskQueue).task # NoTask
    /\ (executor.kind = "ClusterExecutor" /\ pc = "done")
          => /\ allTasksCompleted(taskQueue)
             /\ \A t \in Range(planned) :
                   history[t].handedOut = 1 /\ history[t].completed = 1

(***************************************************************************)
(* C39: the parallel task queue does not deadlock: whenever                *)
(* allTasksCompleted is false and no task is in flight, getNextTask()      *)
(* returns a task; and with fair workers the processing comes to its end,  *)
(* which is, unless a compile step fails, the state where every planned    *)
(* task has been handed out and completed and allTasksCompleted is true.   *)
(***************************************************************************)
C39_ParallelQueueNeverDeadlocks ==
    /\ []ParallelQueueNotStuck
    /\ ParallelProcessing ~> (pc \in {"done", "failed"})

\* The cluster has come to the end of a run over three entry points, the
\* tasks of the dependents having waited for those of core.
C39_Witness ==
    /\ executor.kind = "ClusterExecutor"
    /\ taskQueue.kind = "ParallelTaskQueue"
    /\ pc = "done"
    /\ Len(workers) >= 2
    /\ {"core", "common", "local"} \subseteq Range(entryPoints)
    /\ Len(planned) >= 4
    /\ allTasksCompleted(taskQueue)
    /\ \A t \in Range(planned) : history[t].handedOut = 1 /\ history[t].completed = 1

====
